---- MODULE Spec2Model ----

(***************************************************************************)
(* Ingestion-to-export pipeline of the wearable sensor node:               *)
(*   - page ring            firmware/lib/ringbuf/reg_buffer.cpp             *)
(*   - SampleRingBuffer     firmware/lib/ringbuf/reg_buffer.h               *)
(*   - consolidation        firmware/lib/compute/consolidate.cpp            *)
(*   - record store         firmware/lib/storage/fs_store.cpp               *)
(*   - transfer protocol    firmware/lib/ble/ble_service.cpp                *)
(* Each component has its own specification over the shared variables:     *)
(*   SpecRing   sequential calls of the two ring buffers                    *)
(*   SpecConc   push_256/pop_256/begin/size from two contexts, step by step *)
(*   SpecEngine SampleRingBuffer feeding consolidate_from_ring              *)
(*   Spec       record store, main-loop appends and the BLE protocol        *)
(***************************************************************************)
EXTENDS Integers, Sequences, FiniteSets, TLC

(***************************************************************************)
(* Bounds.  The ring capacities and the window are scaled down from the    *)
(* source values (REG_BUFFER_SLOTS 32, kCapacity 256, kSamplesPerWindow    *)
(* 125); every formula below is stated in terms of the names, not of the   *)
(* numbers.                                                                *)
(***************************************************************************)
REG_BUFFER_SLOTS == 3
kCapacity == 4
kSamplesPerWindow == 3
MaxPush == 5
MaxSamples == 6
MaxCalls == 6
MaxRecords == 2
MaxCmds == 2
MaxAppends == 2
MaxStoreCalls == 4
MaxWindow == 4
StepWindow == 9
MaxPasses == 5
\* samples in a window of the streak timeout runs
QuietWindow == 30
\* reads of the whole store made by the reader of SpecLoop
MaxReads == 1
\* register buffers tried: byte i holds (stride * i + offset) mod 256
MaxStride == 9
MaxOffset == 11
ShortWrite == 4
\* records in the store of the long exports of SpecPacing
MaxPaced == 51
\* timer ticks of the tick handoff runs
MaxTicks == 12

NULL == "nullptr"
PageVals == {"p1", "p2"}
ZeroPage == "zero"

(***************************************************************************)
(* Sample (reg_buffer.h:78-88).  Acceleration is carried in milli-units,   *)
(* heart rate (BPM) and temperature (degrees) in 1/Frac units; timestamp   *)
(* is the field read by consolidate().                                     *)
(***************************************************************************)
\* reg_buffer.h:85-86: hr_bpm and temp_c are float16; the model holds them in
\* 1/32 units (the float16 values between 32 and 64 are the multiples of 1/32,
\* larger ones are multiples of 1/16, 1/8, ...)
Frac == 32

Sample(ax, ay, az, hr, temp, ts) ==
  [ax |-> ax, ay |-> ay, az |-> az, hr_bpm |-> hr, temp_c |-> temp, timestamp |-> ts]

ZeroSample == Sample(0, 0, 0, 0, 0, 0)

VARIABLES
  \* reg_buffer.cpp:9-12
  g_ring, g_head, g_tail, g_count,
  \* observation of the page ring: accepted pushes, popped pages, overwrites
  \* and begin() calls since construction, and the last call with its result
  pushed_256, popped_256, overwrites_256, last_256,
  \* main.cpp:20, a SampleRingBuffer (reg_buffer.h:108-112)
  gRing,
  \* observation of gRing: the samples accepted by push and not discarded by
  \* clear(), the samples popped, and the last call with its result
  pushed_s, popped_s, last_s,
  \* number of samples produced so far (the monotonic timestamp source)
  produced,
  \* which of the two independent ring objects a run of SpecRing exercises
  focus,
  \* reg_buffer.cpp:15, the holder of g_mux ("free" when unlocked)
  g_mux,
  \* per calling context: position inside the reg_buffer function it executes,
  \* and that call's arguments, locals and result
  pc, loc,
  \* the ring as the calls would leave it when run one at a time in the order
  \* in which they entered their critical section; number of calls started
  seq_ring, calls,
  \* consolidate.cpp:36, the step detector's state
  ctx,
  \* consolidate.cpp:147, the static window of consolidate_from_ring
  window,
  \* the records emitted by successful consolidate_from_ring calls, and the
  \* last consolidate_from_ring call with its result
  emitted, last_c,
  \* every record loop() got from consolidate_from_ring since the store was
  \* last erased, with its window and whether its append returned true
  stored,
  \* test_consolidate.cpp:13, 18: the register buffer and the output vector of
  \* the last consolidate call on a register buffer
  register_in, register_out,
  \* position of the loop task inside loop() (main.cpp:89-154), and the number
  \* of samples produced when the store was last erased (-1 if never)
  loop_at, erase_mark,
  \* demo_interrupts.cpp:69, 71 and health_pack_demo.cpp:89: the pending IMU
  \* pack ticks, with the ticks produced, the tick-driven packs performed, the
  \* position of the consumer inside its pass, the packs of that pass and the
  \* ticks it has taken and not yet packed
  ticks,
  \* reg_buffer.h:16, float16::bits, with the float it was read as (the sign,
  \* exponent and mantissa fields of its 32 bits) and the bits stored back
  half,
  \* LittleFS: whether kFsDataPath exists, and its bytes
  file_exists, file,
  \* ble_service.h:30, and whether the peer has enabled notifications
  \* (getSubscribedCount() > 0)
  deviceConnected, subscribed,
  \* position of the BLE task inside stream_all_records, and its locals:
  \* count, the open file of for_each_record (fp, fp_pos, rec_index), packets_sent
  spc, count, fp, fp_pos, rec_index, packets_sent,
  \* the milliseconds of the vTaskDelay the export is waiting in (0 when it is
  \* in none)
  delay_ms,
  \* main.cpp:19, and the epoch given to settimeofday (0 before any sync)
  gResetRingRequested, wall_clock,
  \* observation of the command being handled: its bytes, the frames handed
  \* to the notify characteristic, the hook invocations, the bytes of
  \* the store and the peer's state when the command arrived, the number of
  \* frames sent before the first disconnect (-1 if none), and whether the
  \* peer disconnected or unsubscribed since the command arrived
  command, sent, n_start, n_complete, store_at_cmd, peer_at_cmd, disc_at, disturbed,
  \* the command handled before the one in hand: whether it was an export
  \* that ended with the STREAMERR ack, and how many Data frames it tried
  before_cmd,
  \* every call of notify made for the command in hand, in order: the frame
  \* and whether it was handed to the characteristic
  tried,
  \* number of commands received and of loop() appends made
  cmds, appends,
  \* observation of the calls made to fs_store: the last call (op, io, ret, the
  \* visits of for_each_record), the records whose append returned true since
  \* the store was last empty, whether an append has returned false since then,
  \* and the number of calls
  store_obs

pageVars == <<g_ring, g_head, g_tail, g_count, pushed_256, popped_256, overwrites_256, last_256>>
sampleVars == <<gRing, pushed_s, popped_s, last_s, produced>>
registerVars == <<register_in, register_out>>
loopVars == <<loop_at, erase_mark>>
demoVars == <<ticks, half>>

----------------------------------------------------------------------------

(***************************************************************************)
(* Page ring, reg_buffer.cpp.  Each function is one critical section; the  *)
(* operators take and return the four globals as a record.                 *)
(***************************************************************************)
PageRing == [g_ring |-> g_ring, g_head |-> g_head, g_tail |-> g_tail, g_count |-> g_count]

PageRingInit ==
  [g_ring |-> [i \in 0..(REG_BUFFER_SLOTS - 1) |-> ZeroPage],
   g_head |-> 0, g_tail |-> 0, g_count |-> 0]

\* reg_buffer::begin(); clear() forwards to it.  g_ring is left as it is.
begin(s) == [s EXCEPT !.g_head = 0, !.g_tail = 0, !.g_count = 0]

\* plausible bug: the read index is not advanced when a full ring is overwritten
push_256_NoTailAdvance(s, data) ==
  IF data = NULL THEN [st |-> s, ret |-> FALSE]
  ELSE [st |-> [s EXCEPT !.g_ring[s.g_head] = data,
                         !.g_head = (s.g_head + 1) % REG_BUFFER_SLOTS,
                         !.g_count = IF s.g_count < REG_BUFFER_SLOTS THEN s.g_count + 1 ELSE s.g_count],
        ret |-> TRUE]

\* plausible bug: a push on a full ring is refused, as SampleRingBuffer does
push_256_RejectWhenFull(s, data) ==
  IF data = NULL THEN [st |-> s, ret |-> FALSE]
  ELSE IF s.g_count = REG_BUFFER_SLOTS THEN [st |-> s, ret |-> FALSE]
  ELSE [st |-> [s EXCEPT !.g_ring[s.g_head] = data,
                         !.g_head = (s.g_head + 1) % REG_BUFFER_SLOTS,
                         !.g_count = s.g_count + 1],
        ret |-> TRUE]

\* plausible bug: the head is advanced before the page is copied
push_256_CopyAfterAdvance(s, data) ==
  IF data = NULL THEN [st |-> s, ret |-> FALSE]
  ELSE LET h == (s.g_head + 1) % REG_BUFFER_SLOTS
       IN [st |-> [s EXCEPT !.g_ring[h] = data,
                            !.g_head = h,
                            !.g_count = IF s.g_count < REG_BUFFER_SLOTS THEN s.g_count + 1 ELSE s.g_count,
                            !.g_tail = IF s.g_count < REG_BUFFER_SLOTS THEN s.g_tail ELSE (s.g_tail + 1) % REG_BUFFER_SLOTS],
           ret |-> TRUE]

push_256(s, data) ==
  IF data = NULL THEN [st |-> s, ret |-> FALSE]
  ELSE [st |-> [s EXCEPT !.g_ring[s.g_head] = data,
                         !.g_head = (s.g_head + 1) % REG_BUFFER_SLOTS,
                         !.g_count = IF s.g_count < REG_BUFFER_SLOTS THEN s.g_count + 1 ELSE s.g_count,
                         !.g_tail = IF s.g_count < REG_BUFFER_SLOTS THEN s.g_tail ELSE (s.g_tail + 1) % REG_BUFFER_SLOTS],
        ret |-> TRUE]

\* plausible bug: the read index is advanced before the empty check
pop_256_AdvanceBeforeCheck(s, out) ==
  IF out = NULL THEN [st |-> s, ret |-> FALSE, out |-> NULL]
  ELSE IF s.g_count = 0
       THEN [st |-> [s EXCEPT !.g_tail = (s.g_tail + 1) % REG_BUFFER_SLOTS],
             ret |-> FALSE, out |-> out]
  ELSE [st |-> [s EXCEPT !.g_tail = (s.g_tail + 1) % REG_BUFFER_SLOTS,
                         !.g_count = s.g_count - 1],
        ret |-> TRUE, out |-> s.g_ring[s.g_tail]]

\* out is the destination pointer: NULL, or a buffer that receives the page
pop_256(s, out) ==
  IF out = NULL THEN [st |-> s, ret |-> FALSE, out |-> NULL]
  ELSE IF s.g_count = 0 THEN [st |-> s, ret |-> FALSE, out |-> out]
  ELSE [st |-> [s EXCEPT !.g_tail = (s.g_tail + 1) % REG_BUFFER_SLOTS,
                         !.g_count = s.g_count - 1],
        ret |-> TRUE, out |-> s.g_ring[s.g_tail]]

size(s) == s.g_count

capacity == REG_BUFFER_SLOTS

\* the pages held, oldest first
PageContents(s) ==
  [i \in 1..(IF s.g_count <= REG_BUFFER_SLOTS THEN s.g_count ELSE 0) |->
     s.g_ring[(s.g_tail + i - 1) % REG_BUFFER_SLOTS]]

SetPageRing(s) ==
  /\ g_ring' = s.g_ring
  /\ g_head' = s.g_head
  /\ g_tail' = s.g_tail
  /\ g_count' = s.g_count

Call_begin ==
  /\ SetPageRing(begin(PageRing))
  /\ pushed_256' = << >>
  /\ popped_256' = << >>
  /\ overwrites_256' = 0
  /\ last_256' = [op |-> "begin", ret |-> TRUE, out |-> NULL]

Call_push_256 ==
  \E data \in PageVals \cup {NULL} :
    /\ Len(pushed_256) < MaxPush
    /\ LET r == push_256(PageRing, data)
       IN /\ SetPageRing(r.st)
          /\ pushed_256' = IF r.ret THEN Append(pushed_256, data) ELSE pushed_256
          /\ overwrites_256' = IF r.ret /\ g_count = REG_BUFFER_SLOTS
                               THEN overwrites_256 + 1 ELSE overwrites_256
          /\ last_256' = [op |-> "push_256", ret |-> r.ret, out |-> data]
    /\ UNCHANGED popped_256

Call_pop_256 ==
  \E out \in {"buf", NULL} :
    LET r == pop_256(PageRing, out)
    IN /\ SetPageRing(r.st)
       /\ popped_256' = IF r.ret THEN Append(popped_256, r.out) ELSE popped_256
       /\ last_256' = [op |-> "pop_256", ret |-> r.ret, out |-> r.out]
       /\ UNCHANGED <<pushed_256, overwrites_256>>

Call_size ==
  /\ last_256' = [op |-> "size", ret |-> size(PageRing), out |-> NULL]
  /\ UNCHANGED <<g_ring, g_head, g_tail, g_count, pushed_256, popped_256, overwrites_256>>

----------------------------------------------------------------------------

(***************************************************************************)
(* SampleRingBuffer.  reg_buffer.h declares the class and its fields; the  *)
(* bodies of push, pop, peek and clear follow the contract of the design   *)
(* document (section 4.1) and the comments of the declaration: head_ is    *)
(* the oldest element, tail_ the next insertion slot.  A failed pop or     *)
(* peek leaves sample_out as the caller initialised it (ZeroSample).       *)
(***************************************************************************)
SampleRingBuffer ==
  [buffer_ |-> [i \in 0..(kCapacity - 1) |-> ZeroSample], head_ |-> 0, tail_ |-> 0, count_ |-> 0]

SampleRingBuffer_size(r) == r.count_
SampleRingBuffer_empty(r) == r.count_ = 0
SampleRingBuffer_full(r) == r.count_ = kCapacity

\* the rejected policy: overwrite the oldest sample when full
SampleRingBuffer_push_Overwrite(r, sample) ==
  [st |-> [r EXCEPT !.buffer_[r.tail_] = sample,
                    !.tail_ = (r.tail_ + 1) % kCapacity,
                    !.head_ = IF r.count_ = kCapacity THEN (r.head_ + 1) % kCapacity ELSE r.head_,
                    !.count_ = IF r.count_ = kCapacity THEN r.count_ ELSE r.count_ + 1],
   ret |-> TRUE]

SampleRingBuffer_push(r, sample) ==
  IF SampleRingBuffer_full(r) THEN [st |-> r, ret |-> FALSE]
  ELSE [st |-> [r EXCEPT !.buffer_[r.tail_] = sample,
                         !.tail_ = (r.tail_ + 1) % kCapacity,
                         !.count_ = r.count_ + 1],
        ret |-> TRUE]

SampleRingBuffer_pop(r) ==
  IF SampleRingBuffer_empty(r) THEN [st |-> r, ret |-> FALSE, out |-> ZeroSample]
  ELSE [st |-> [r EXCEPT !.head_ = (r.head_ + 1) % kCapacity,
                         !.count_ = r.count_ - 1],
        ret |-> TRUE, out |-> r.buffer_[r.head_]]

SampleRingBuffer_peek(r, index) ==
  IF index >= r.count_ THEN [st |-> r, ret |-> FALSE, out |-> ZeroSample]
  ELSE [st |-> r, ret |-> TRUE, out |-> r.buffer_[(r.head_ + index) % kCapacity]]

SampleRingBuffer_clear(r) == [r EXCEPT !.head_ = 0, !.tail_ = 0, !.count_ = 0]

\* the samples held, oldest first
SampleContents(r) ==
  [i \in 1..r.count_ |-> r.buffer_[(r.head_ + i - 1) % kCapacity]]

\* what the sampling routine can hand over, stamped with the sample number:
\* the wrist at rest, or at rest or swinging
RestInputs == { Sample(0, 0, 1000, 60 * Frac, 37 * Frac, produced + 1) }
SampleInputs == { Sample(ax, 0, 1000, 60 * Frac, 37 * Frac, produced + 1) : ax \in {0, 900} }

Call_push(inputs) ==
  \E sample \in inputs :
    /\ produced < MaxSamples
    /\ produced' = produced + 1
    /\ LET r == SampleRingBuffer_push(gRing, sample)
       IN /\ gRing' = r.st
          /\ pushed_s' = IF r.ret THEN Append(pushed_s, sample) ELSE pushed_s
          /\ last_s' = [op |-> "push", ret |-> r.ret, out |-> sample]
    /\ UNCHANGED popped_s

Call_pop ==
  LET r == SampleRingBuffer_pop(gRing)
  IN /\ gRing' = r.st
     /\ popped_s' = IF r.ret THEN Append(popped_s, r.out) ELSE popped_s
     /\ last_s' = [op |-> "pop", ret |-> r.ret, out |-> r.out]
     /\ UNCHANGED <<pushed_s, produced>>

Call_peek ==
  \E index \in 0..kCapacity :
    LET r == SampleRingBuffer_peek(gRing, index)
    IN /\ gRing' = r.st
       /\ last_s' = [op |-> "peek", ret |-> r.ret, out |-> r.out, index |-> index]
       /\ UNCHANGED <<pushed_s, popped_s, produced>>

Call_clear ==
  /\ gRing' = SampleRingBuffer_clear(gRing)
  /\ pushed_s' = popped_s
  /\ popped_s' = popped_s
  /\ last_s' = [op |-> "clear", ret |-> TRUE, out |-> ZeroSample]
  /\ UNCHANGED produced

----------------------------------------------------------------------------

----------------------------------------------------------------------------

(***************************************************************************)
(* reg_buffer.cpp executed from two contexts, one statement at a time.     *)
(* taskENTER_CRITICAL(&g_mux) spins until the lock is free; every access   *)
(* to the volatile globals is its own step.                                *)
(***************************************************************************)
Contexts == {"producer", "consumer"}

\* the functions each context calls
CallsOf(c) == IF c = "producer" THEN {"push_256", "begin"} ELSE {"pop_256", "size", "begin"}

IdleLoc == [fn |-> "none", data |-> NULL, tmp |-> 0, ret |-> FALSE, out |-> NULL,
            seq_ret |-> FALSE, seq_out |-> NULL]

ConcInit ==
  /\ g_mux = "free"
  /\ pc = [c \in Contexts |-> "idle"]
  /\ loc = [c \in Contexts |-> IdleLoc]
  /\ seq_ring = PageRingInit
  /\ calls = 0

\* plausible bug: the critical section is entered without waiting for the lock
taskENTER_CRITICAL_NoWait(c) == g_mux' = c

taskENTER_CRITICAL(c) == g_mux = "free" /\ g_mux' = c

taskEXIT_CRITICAL(c) == g_mux' = "free"

\* reg_buffer.cpp:34-35, 56-57, 19, 74: entry of a function and its null check;
\* data is the page of a push_256 and the destination ("buf") of a pop_256
Enter(c) ==
  /\ pc[c] = "idle"
  /\ calls < MaxCalls
  /\ calls' = calls + 1
  /\ \E fn \in CallsOf(c), data \in PageVals \cup {"buf", NULL} :
       /\ fn \in {"begin", "size"} => data = "buf"
       /\ fn = "push_256" => data # "buf"
       /\ fn = "pop_256" => data \in {"buf", NULL}
       /\ loc' = [loc EXCEPT ![c] = [IdleLoc EXCEPT !.fn = fn, !.data = data]]
       /\ pc' = [pc EXCEPT ![c] =
                   IF fn \in {"push_256", "pop_256"} /\ data = NULL THEN "idle" ELSE "lock"]
  /\ UNCHANGED <<g_ring, g_head, g_tail, g_count, g_mux, seq_ring>>

\* reg_buffer.cpp:20, 37, 59, 75.  The sequential ring takes the whole call here.
Lock(c) ==
  /\ pc[c] = "lock"
  /\ taskENTER_CRITICAL(c)
  /\ LET fn == loc[c].fn
         r == IF fn = "push_256" THEN push_256(seq_ring, loc[c].data)
              ELSE IF fn = "pop_256" THEN pop_256(seq_ring, loc[c].data)
              ELSE IF fn = "begin" THEN [st |-> begin(seq_ring), ret |-> TRUE, out |-> NULL]
              ELSE [st |-> seq_ring, ret |-> size(seq_ring), out |-> NULL]
     IN /\ seq_ring' = r.st
        /\ loc' = [loc EXCEPT ![c].seq_ret = r.ret,
                              ![c].seq_out = IF fn = "pop_256" /\ r.ret THEN r.out ELSE NULL]
        /\ pc' = [pc EXCEPT ![c] = IF fn = "push_256" THEN "push_copy"
                                   ELSE IF fn = "pop_256" THEN "pop_test"
                                   ELSE IF fn = "begin" THEN "begin_count"
                                   ELSE "size_read"]
  /\ UNCHANGED <<g_ring, g_head, g_tail, g_count, calls>>

\* reg_buffer.cpp:40
Push_copy(c) ==
  /\ pc[c] = "push_copy"
  /\ g_ring' = [g_ring EXCEPT ![g_head] = loc[c].data]
  /\ pc' = [pc EXCEPT ![c] = "push_head"]
  /\ UNCHANGED <<g_head, g_tail, g_count, g_mux, loc, seq_ring, calls>>

\* reg_buffer.cpp:43
Push_head(c) ==
  /\ pc[c] = "push_head"
  /\ g_head' = (g_head + 1) % REG_BUFFER_SLOTS
  /\ pc' = [pc EXCEPT ![c] = "push_test"]
  /\ UNCHANGED <<g_ring, g_tail, g_count, g_mux, loc, seq_ring, calls>>

\* reg_buffer.cpp:45: read of g_count for the comparison and the increment
Push_test(c) ==
  /\ pc[c] = "push_test"
  /\ loc' = [loc EXCEPT ![c].tmp = g_count]
  /\ pc' = [pc EXCEPT ![c] = IF g_count < REG_BUFFER_SLOTS THEN "push_count" ELSE "push_tail"]
  /\ UNCHANGED <<g_ring, g_head, g_tail, g_count, g_mux, seq_ring, calls>>

\* reg_buffer.cpp:46: write of g_count++
Push_count(c) ==
  /\ pc[c] = "push_count"
  /\ g_count' = loc[c].tmp + 1
  /\ pc' = [pc EXCEPT ![c] = "unlock"]
  /\ loc' = [loc EXCEPT ![c].ret = TRUE]
  /\ UNCHANGED <<g_ring, g_head, g_tail, g_mux, seq_ring, calls>>

\* reg_buffer.cpp:49
Push_tail(c) ==
  /\ pc[c] = "push_tail"
  /\ g_tail' = (g_tail + 1) % REG_BUFFER_SLOTS
  /\ pc' = [pc EXCEPT ![c] = "unlock"]
  /\ loc' = [loc EXCEPT ![c].ret = TRUE]
  /\ UNCHANGED <<g_ring, g_head, g_count, g_mux, seq_ring, calls>>

\* reg_buffer.cpp:60-63
Pop_test(c) ==
  /\ pc[c] = "pop_test"
  /\ pc' = [pc EXCEPT ![c] = IF g_count = 0 THEN "unlock" ELSE "pop_copy"]
  /\ loc' = [loc EXCEPT ![c].ret = FALSE]
  /\ UNCHANGED <<g_ring, g_head, g_tail, g_count, g_mux, seq_ring, calls>>

\* reg_buffer.cpp:66
Pop_copy(c) ==
  /\ pc[c] = "pop_copy"
  /\ loc' = [loc EXCEPT ![c].out = g_ring[g_tail]]
  /\ pc' = [pc EXCEPT ![c] = "pop_tail"]
  /\ UNCHANGED <<g_ring, g_head, g_tail, g_count, g_mux, seq_ring, calls>>

\* reg_buffer.cpp:67, and the read of g_count for line 68
Pop_tail(c) ==
  /\ pc[c] = "pop_tail"
  /\ g_tail' = (g_tail + 1) % REG_BUFFER_SLOTS
  /\ loc' = [loc EXCEPT ![c].tmp = g_count]
  /\ pc' = [pc EXCEPT ![c] = "pop_count"]
  /\ UNCHANGED <<g_ring, g_head, g_count, g_mux, seq_ring, calls>>

\* reg_buffer.cpp:68: write of g_count--
Pop_count(c) ==
  /\ pc[c] = "pop_count"
  /\ g_count' = loc[c].tmp - 1
  /\ loc' = [loc EXCEPT ![c].ret = TRUE]
  /\ pc' = [pc EXCEPT ![c] = "unlock"]
  /\ UNCHANGED <<g_ring, g_head, g_tail, g_mux, seq_ring, calls>>

\* reg_buffer.cpp:21: g_head = g_tail = g_count = 0 assigns right to left
Begin_count(c) ==
  /\ pc[c] = "begin_count"
  /\ g_count' = 0
  /\ pc' = [pc EXCEPT ![c] = "begin_tail"]
  /\ UNCHANGED <<g_ring, g_head, g_tail, g_mux, loc, seq_ring, calls>>

Begin_tail(c) ==
  /\ pc[c] = "begin_tail"
  /\ g_tail' = 0
  /\ pc' = [pc EXCEPT ![c] = "begin_head"]
  /\ UNCHANGED <<g_ring, g_head, g_count, g_mux, loc, seq_ring, calls>>

Begin_head(c) ==
  /\ pc[c] = "begin_head"
  /\ g_head' = 0
  /\ loc' = [loc EXCEPT ![c].ret = TRUE]
  /\ pc' = [pc EXCEPT ![c] = "unlock"]
  /\ UNCHANGED <<g_ring, g_tail, g_count, g_mux, seq_ring, calls>>

\* reg_buffer.cpp:76
Size_read(c) ==
  /\ pc[c] = "size_read"
  /\ loc' = [loc EXCEPT ![c].ret = g_count]
  /\ pc' = [pc EXCEPT ![c] = "unlock"]
  /\ UNCHANGED <<g_ring, g_head, g_tail, g_count, g_mux, seq_ring, calls>>

\* reg_buffer.cpp:22, 52, 61, 70, 77 and the return
Unlock(c) ==
  /\ pc[c] = "unlock"
  /\ taskEXIT_CRITICAL(c)
  /\ pc' = [pc EXCEPT ![c] = "idle"]
  /\ UNCHANGED <<g_ring, g_head, g_tail, g_count, loc, seq_ring, calls>>

----------------------------------------------------------------------------

(***************************************************************************)
(* Consolidation engine, consolidate.cpp.  Floating point is carried as    *)
(* fixed point: acceleration and the filter in thousandths, so 1.0f is     *)
(* 1000; products and quotients truncate.                                  *)
(***************************************************************************)
Milli == 1000
kMaxBufferSize == 256
\* kFilterAlpha 0.11f, in hundredths
kFilterAlpha == 11
kMinSamplesBetweenSteps == 6
\* kMinPeakHeight 0.03f, in thousandths
kMinPeakHeight == 30
\* samples[0].ax above 500.0f selects the raw-unit margin, scale_factor 2000.0f
RawThreshold == 500
RawScale == 2000
StreakConfirm == 3
SilenceSamples == 50
\* wrap of uint8_t streak and uint16_t window_steps
U8 == 256
U16 == 65536

Abs(x) == IF x < 0 THEN 0 - x ELSE x
Min(a, b) == IF a < b THEN a ELSE b
Max(a, b) == IF a > b THEN a ELSE b

\* plausible bug: the value is handed on as it is
clamp_Unbounded(value, min_val, max_val) == value

\* consolidate.cpp:38-41
clamp(value, min_val, max_val) == Max(min_val, Min(value, max_val))

\* plausible bug: the quotient is rounded away from zero
TruncDiv_AwayFromZero(a, b) ==
  IF a >= 0 THEN (a + b - 1) \div b ELSE 0 - ((b - 1 - a) \div b)

\* integer quotient rounded toward zero, as a C++ conversion to integer does
TruncDiv(a, b) == IF a >= 0 THEN a \div b ELSE 0 - ((0 - a) \div b)

RECURSIVE SqrtSearch(_, _, _)
SqrtSearch(n, lo, hi) ==
  IF lo >= hi THEN lo
  ELSE LET mid == (lo + hi + 1) \div 2
       IN IF mid * mid <= n THEN SqrtSearch(n, mid, hi) ELSE SqrtSearch(n, lo, mid - 1)

\* floor of the square root, for n < 2^31
ISqrt(n) == SqrtSearch(n, 0, 46340)

\* consolidate.cpp:70, std::sqrt(ax*ax + ay*ay + az*az); components beyond
\* 26 (raw-unit sensors) are squared in tenths to stay within 32 bits
Magnitude(s) ==
  IF Abs(s.ax) <= 26000 /\ Abs(s.ay) <= 26000 /\ Abs(s.az) <= 26000
  THEN ISqrt(s.ax * s.ax + s.ay * s.ay + s.az * s.az)
  ELSE 1000 * ISqrt((s.ax \div 1000) * (s.ax \div 1000) + (s.ay \div 1000) * (s.ay \div 1000)
                    + (s.az \div 1000) * (s.az \div 1000))

\* consolidate.cpp:29-36
StepContext ==
  [samples_since_step |-> 1000, running_avg |-> 1 * Milli, valid_walking |-> FALSE, streak |-> 0]

\* consolidate.cpp:13-19 of consolidate.h, value-initialised
ConsolidatedRecord == [avg_hr_x10 |-> 0, avg_temp_x100 |-> 0, step_count |-> 0, timestamp |-> 0]

\* consolidate.cpp:64-79, pass 1: smooth_mags[0..n-1] from the filter memory
RECURSIVE SmoothMags(_, _, _)
SmoothMags(samples, n, current_avg) ==
  IF n = 0 THEN << >>
  ELSE LET before == SmoothMags(samples, n - 1, current_avg)
           prev == IF n = 1 THEN current_avg ELSE before[n - 1]
       IN Append(before, (prev * (100 - kFilterAlpha) + Magnitude(samples[n]) * kFilterAlpha) \div 100)

RECURSIVE SumOver(_, _)
SumOver(f, n) == IF n = 0 THEN 0 ELSE SumOver(f, n - 1) + f[n]

\* plausible bug: a rise counts as a peak whether or not a fall follows
IsPeak_RiseOnly(prev, curr, next) == curr > prev

\* consolidate.cpp:103, higher than both neighbours
IsPeak(prev, curr, next) == curr > prev /\ curr > next

\* plausible bug: the confirming step is counted alone, without the backfill
ValidStep_NoBackfill(st) ==
  LET streak == (st.streak + 1) % U8
  IN [samples_since_step |-> 0,
      streak |-> streak,
      valid_steps |-> st.valid_steps + 1,
      valid_walking |-> st.valid_walking \/ streak >= StreakConfirm,
      window_steps |-> IF st.valid_walking \/ streak >= StreakConfirm
                       THEN (st.window_steps + 1) % U16
                       ELSE st.window_steps]

\* consolidate.cpp:110-120, the VALID STEP branch
ValidStep(st) ==
  LET streak == (st.streak + 1) % U8
  IN [samples_since_step |-> 0,
      streak |-> streak,
      valid_steps |-> st.valid_steps + 1,
      valid_walking |-> st.valid_walking \/ streak >= StreakConfirm,
      window_steps |-> IF st.valid_walking THEN (st.window_steps + 1) % U16
                       ELSE IF streak >= StreakConfirm THEN (st.window_steps + 3) % U16
                       ELSE st.window_steps]

\* consolidate.cpp:97-104: the sample at loop index i is a peak, and one
\* high enough above the baseline
Candidate(smooth, i, peak_threshold) ==
  LET prev == smooth[i]
      curr == smooth[i + 1]
      next == smooth[i + 2]
  IN IsPeak(prev, curr, next) /\ curr > peak_threshold

\* plausible bug: any sample since the last step is enough
Debounced_AnySample(since) == since >= 1

\* consolidate.cpp:107, the Debounce (Time Check)
Debounced(since) == since > kMinSamplesBetweenSteps

\* consolidate.cpp:94-124, pass 2 up to and including interior index i
\* (0-based 1..n-2); st carries ctx, window_steps and the number of times the
\* VALID STEP branch (lines 110-120) was taken
RECURSIVE PeakScan(_, _, _, _)
PeakScan(smooth, i, peak_threshold, st0) ==
  IF i < 1 THEN st0
  ELSE LET st == PeakScan(smooth, i - 1, peak_threshold, st0)
           since == st.samples_since_step + 1
           step == Candidate(smooth, i, peak_threshold) /\ Debounced(since)
       IN IF ~step THEN [st EXCEPT !.samples_since_step = since]
          ELSE ValidStep(st)

\* plausible bug: the record carries the time of the window's first sample
RecordTimestamp_FirstSample(samples, sample_count) == samples[1].timestamp

\* consolidate.cpp:136, with sample_count as line 49 leaves it
RecordTimestamp(samples, sample_count) == samples[sample_count].timestamp

\* consolidate.cpp:46-47, 86-91: the threshold of the window's peaks
PeakThreshold(samples, n, smooth_mags) ==
  LET scale_factor == IF Abs(samples[1].ax) > RawThreshold * Milli THEN RawScale ELSE 1
      window_baseline == SumOver(smooth_mags, n) \div n
  IN window_baseline + kMinPeakHeight * scale_factor

\* consolidate.cpp:50-122: the state of the peak detection of a call
\* consolidate(samples, n, ..) with context c after each loop index i (before
\* the loop for i = 0)
ScanAll(samples, n, c) ==
  LET smooth_mags == SmoothMags(samples, n, c.running_avg)
      peak_threshold == PeakThreshold(samples, n, smooth_mags)
  IN [i \in 0..Max(n - 2, 0) |->
        PeakScan(smooth_mags, i, peak_threshold,
                 [samples_since_step |-> c.samples_since_step,
                  streak |-> c.streak,
                  valid_walking |-> c.valid_walking,
                  valid_steps |-> 0,
                  window_steps |-> 0])]

\* consolidate.cpp:44-142.  samples is the array as a sequence, the empty
\* sequence for a null pointer; returns the return value, record_out and ctx
\* as the call leaves them, with the number of valid steps of the pass and
\* whether the timeout branch (lines 127-130) was taken.
consolidate(samples, sample_count, record_out, c) ==
  IF samples = << >> \/ sample_count = 0
  THEN [ret |-> FALSE, record_out |-> record_out, ctx |-> c, valid_steps |-> 0, reset |-> FALSE]
  ELSE LET n == Min(sample_count, kMaxBufferSize)
           smooth_mags == SmoothMags(samples, n, c.running_avg)
           hr_sum == SumOver([i \in 1..n |-> samples[i].hr_bpm], n)
           temp_sum == SumOver([i \in 1..n |-> samples[i].temp_c], n)
           scanned == ScanAll(samples, n, c)[Max(n - 2, 0)]
           silent == scanned.window_steps = 0 /\ scanned.samples_since_step > SilenceSamples
       IN [ret |-> TRUE,
           record_out |-> [avg_hr_x10 |-> clamp(TruncDiv(hr_sum * 10, n * Frac), 0, 65535),
                           avg_temp_x100 |-> clamp(TruncDiv(temp_sum * 100, n * Frac), -32768, 32767),
                           step_count |-> scanned.window_steps,
                           timestamp |-> RecordTimestamp(samples, n)],
           ctx |-> [samples_since_step |-> scanned.samples_since_step,
                    running_avg |-> smooth_mags[n],
                    valid_walking |-> IF silent THEN FALSE ELSE scanned.valid_walking,
                    streak |-> IF silent THEN 0 ELSE scanned.streak],
           valid_steps |-> scanned.valid_steps,
           reset |-> silent]

\* consolidate.cpp:148, the first n iterations of the pop loop
RECURSIVE PopInto(_, _, _)
PopInto(ring, win, n) ==
  IF n = 0 THEN [ring |-> ring, window |-> win]
  ELSE LET before == PopInto(ring, win, n - 1)
           p == SampleRingBuffer_pop(before.ring)
       IN [ring |-> p.st,
           window |-> IF p.ret THEN [before.window EXCEPT ![n] = p.out] ELSE before.window]

\* plausible bug: the window is drained before the size is checked
consolidate_from_ring_DrainFirst(ring, win, record_out, c) ==
  LET popped == PopInto(ring, win, Min(kSamplesPerWindow, SampleRingBuffer_size(ring)))
  IN IF SampleRingBuffer_size(ring) < kSamplesPerWindow
     THEN [ret |-> FALSE, ring |-> popped.ring, window |-> popped.window,
           record_out |-> record_out, ctx |-> c, valid_steps |-> 0, reset |-> FALSE]
     ELSE LET r == consolidate(popped.window, kSamplesPerWindow, record_out, c)
          IN [ret |-> r.ret, ring |-> popped.ring, window |-> popped.window,
              record_out |-> r.record_out, ctx |-> r.ctx,
              valid_steps |-> r.valid_steps, reset |-> r.reset]

\* plausible bug: off by one in the pop loop, one sample of the window stays behind
consolidate_from_ring_ShortLoop(ring, win, record_out, c) ==
  IF SampleRingBuffer_size(ring) < kSamplesPerWindow
  THEN [ret |-> FALSE, ring |-> ring, window |-> win, record_out |-> record_out, ctx |-> c,
        valid_steps |-> 0, reset |-> FALSE]
  ELSE LET popped == PopInto(ring, win, kSamplesPerWindow - 1)
           r == consolidate(popped.window, kSamplesPerWindow, record_out, c)
       IN [ret |-> r.ret, ring |-> popped.ring, window |-> popped.window,
           record_out |-> r.record_out, ctx |-> r.ctx,
           valid_steps |-> r.valid_steps, reset |-> r.reset]

\* consolidate.cpp:144-150
consolidate_from_ring(ring, win, record_out, c) ==
  IF SampleRingBuffer_size(ring) < kSamplesPerWindow
  THEN [ret |-> FALSE, ring |-> ring, window |-> win, record_out |-> record_out, ctx |-> c,
        valid_steps |-> 0, reset |-> FALSE]
  ELSE LET popped == PopInto(ring, win, kSamplesPerWindow)
           r == consolidate(popped.window, kSamplesPerWindow, record_out, c)
       IN [ret |-> r.ret, ring |-> popped.ring, window |-> popped.window,
           record_out |-> r.record_out, ctx |-> r.ctx,
           valid_steps |-> r.valid_steps, reset |-> r.reset]

\* the samples (1-based) of a call consolidate(samples, n, ..) with context c
\* at which the VALID STEP branch was taken
StepsAt(samples, c) ==
  LET n == Len(samples)
      scan == ScanAll(samples, n, c)
  IN { k \in 2..(n - 1) : scan[k - 1].valid_steps > scan[k - 2].valid_steps }

\* the samples (1-based) of the call that are candidate steps
CandidatesAt(samples, c) ==
  LET n == Len(samples)
      smooth_mags == SmoothMags(samples, n, c.running_avg)
      peak_threshold == PeakThreshold(samples, n, smooth_mags)
  IN { k \in 2..(n - 1) : Candidate(smooth_mags, k - 1, peak_threshold) }

\* the latest of the samples in at that come before sample k, 0 if none
LastBefore(at, k) ==
  IF \E j \in at : j < k THEN CHOOSE j \in at : j < k /\ \A h \in at : h < k => h <= j
  ELSE 0

\* gaps: the samples elapsed between each valid step of the call and the
\* valid step before it; quiet: between each valid step and the candidate
\* before it; since, since_candidate: the samples from the last valid step
\* and from the last candidate to the end of the window.  The engine starts
\* with no step behind it (consolidate.cpp:30).
Elapsed(samples, c, ret) ==
  LET n == Len(samples)
      at == StepsAt(samples, c)
      cand == CandidatesAt(samples, c)
  IN IF ~ret THEN [gaps |-> {}, quiet |-> {}, since |-> last_c.since,
                   since_candidate |-> last_c.since_candidate]
     ELSE [gaps |-> { IF LastBefore(at, k) = 0 THEN last_c.since + k
                      ELSE k - LastBefore(at, k) : k \in at },
           quiet |-> { IF LastBefore(cand, k) = 0 THEN last_c.since_candidate + k
                       ELSE k - LastBefore(cand, k) : k \in at },
           since |-> n + (IF at = {} THEN last_c.since ELSE 0) - LastBefore(at, n + 1),
           since_candidate |-> n + (IF cand = {} THEN last_c.since_candidate ELSE 0)
                                 - LastBefore(cand, n + 1)]

\* the valid steps taken and the steps reported since the engine was last in
\* its starting state (streak 0, not walking), after a call that returned r
Tally(r) ==
  IF ~r.ret THEN [accepted |-> last_c.accepted, reported |-> last_c.reported]
  ELSE IF r.reset THEN [accepted |-> 0, reported |-> 0]
  ELSE [accepted |-> last_c.accepted + r.valid_steps,
        reported |-> last_c.reported + r.record_out.step_count]

(***************************************************************************)
(* float16 of reg_buffer.h: IEEE 754 binary16 bits, converted from and to  *)
(* float. A float is held as the three fields of its 32 bits, sign (bit    *)
(* 31), exp (bits 30..23, biased) and mant (bits 22..0).                   *)
(***************************************************************************)
Float(sign, exp, mant) == [sign |-> sign, exp |-> exp, mant |-> mant]

\* x >> n and x << n on unsigned values
Shr(x, n) == x \div (2 ^ n)
Shl(x, n) == x * (2 ^ n)

\* reg_buffer.h:21-50, float16::float_to_half
float_to_half(f) ==
  LET sign == f.sign
      exp == f.exp - 127
      mant == f.mant
  IN IF exp > 15 THEN Shl(sign, 15) + Shl(31, 10)
     ELSE IF exp > 0 - 15
     THEN LET he0 == exp + 15
              roundBit == Shr(mant, 12) % 2
              hm0 == Shr(mant, 13) + roundBit
              over == Shr(hm0, 10) % 2 = 1
              hm == IF over THEN 0 ELSE hm0
              he == IF over THEN (IF he0 + 1 >= 31 THEN 31 ELSE he0 + 1) ELSE he0
          IN Shl(sign, 15) + Shl(he % 32, 10) + (hm % 1024)
     ELSE IF exp < 0 - 24 THEN Shl(sign, 15)
     ELSE LET shift == (0 - exp) - 15
              sub == Shr(8388608 + mant, shift + 13)
          \* (sign << 15) | sub: sub may reach bit 10, never bit 15
          IN Shl(sign, 15) + sub

\* reg_buffer.h:61, the while loop: mant is shifted left until bit 10 is set;
\* exp is a uint32_t that goes below zero here and wraps, and the sum
\* exp - 15 + 127 of line 63 wraps back to the value computed on integers
RECURSIVE Normalize(_, _)
Normalize(mant, exp) ==
  IF Shr(mant, 10) % 2 = 0 THEN Normalize(Shl(mant, 1), exp - 1)
  ELSE [mant |-> mant, exp |-> exp]

\* reg_buffer.h:51-75, float16::half_to_float
half_to_float(h) ==
  LET sign == Shr(h, 15) % 2
      exp == Shr(h, 10) % 32
      mant == h % 1024
  IN IF exp = 0
     THEN IF mant = 0 THEN Float(sign, 0, 0)
          ELSE LET n == Normalize(mant, 1)
               IN Float(sign, n.exp - 15 + 127, Shl(n.mant % 1024, 13))
     ELSE IF exp = 31 THEN Float(sign, 255, Shl(mant, 13))
     ELSE Float(sign, exp - 15 + 127, Shl(mant, 13))

HalfInit == [bits |-> 0, f |-> Float(0, 0, 0), back |-> 0, at |-> "idle"]

\* reg_buffer.h:16, the member bits: a Sample copied out of a buffer holds
\* whatever 16 bits were there
float16_bits ==
  /\ half.at = "idle"
  /\ \E h \in 0 .. U16 - 1 : half' = [half EXCEPT !.bits = h, !.at = "bits"]

\* reg_buffer.h:18, float16(float f): the bits are computed from the float,
\* which is the one just read (at "read") or any other float (at "idle")
float16_construct(floats) ==
  /\ half.at \in {"idle", "read"}
  /\ \E x \in (IF half.at = "read" THEN {half.f} ELSE floats) :
       half' = [half EXCEPT !.f = x, !.back = float_to_half(x),
                            !.at = IF half.at = "read" THEN "stored" ELSE "made"]

\* reg_buffer.h:19, operator float(): the float is computed from the bits
float16_read ==
  /\ half.at = "bits"
  /\ half' = [half EXCEPT !.f = half_to_float(half.bits), !.at = "read"]

(***************************************************************************)
(* The IMU pack ticks of the two demo programs: a timer callback counts    *)
(* ticks, the consumer takes them and packs one sample for each.           *)
(***************************************************************************)
\* demo_interrupts.cpp:77, IMU_PACKS_PER_PASS_MAX
IMU_PACKS_PER_PASS_MAX == 10
\* health_pack_demo.cpp:323, the cap on the packs of one loop() pass
kLoopPacksMax == 5

TicksInit ==
  [imu_pack_ticks |-> 0, imu_tick_count |-> 0, packed |-> 0, at |-> "idle", i |-> 0, taken |-> 0]

\* demo_interrupts.cpp:114-118, imu_timer_cb, and health_pack_demo.cpp:175,
\* on_timer_pack (which keeps no total: imu_tick_count stands for the ticks
\* its timer has fired)
imu_timer_cb ==
  /\ ticks.imu_tick_count < MaxTicks
  /\ ticks' = [ticks EXCEPT !.imu_tick_count = @ + 1, !.imu_pack_ticks = @ + 1]

\* demo_interrupts.cpp:258-259: a pass of worker_fn reaches the packing loop
worker_pass ==
  /\ focus = "worker"
  /\ ticks.at = "idle"
  /\ ticks' = [ticks EXCEPT !.at = "take", !.i = 0]

\* demo_interrupts.cpp:259-265: the loop test and the critical section that
\* takes one pending tick, or the break when there is none
worker_take ==
  /\ focus = "worker"
  /\ ticks.at = "take"
  /\ ticks' = IF ticks.i < IMU_PACKS_PER_PASS_MAX /\ ticks.imu_pack_ticks > 0
              THEN [ticks EXCEPT !.imu_pack_ticks = @ - 1, !.taken = 1, !.at = "pack"]
              ELSE [ticks EXCEPT !.at = "idle"]

\* demo_interrupts.cpp:264: do_one_pack() and packs_done++
worker_pack ==
  /\ focus = "worker"
  /\ ticks.at = "pack"
  /\ ticks' = [ticks EXCEPT !.packed = @ + 1, !.taken = 0, !.i = @ + 1, !.at = "take"]

\* health_pack_demo.cpp:319-323: with interrupts off loop() reads and zeroes
\* the counter, then caps what it read
loop_take ==
  /\ focus = "loop_ticks"
  /\ ticks.at = "idle"
  /\ ticks' = [ticks EXCEPT !.taken = IF ticks.imu_pack_ticks > kLoopPacksMax THEN kLoopPacksMax
                                      ELSE ticks.imu_pack_ticks,
                            !.imu_pack_ticks = 0, !.i = 0, !.at = "pack"]

\* health_pack_demo.cpp:327-343: one turn of the packing loop, or its end
loop_pack ==
  /\ focus = "loop_ticks"
  /\ ticks.at = "pack"
  /\ ticks' = IF ticks.i < ticks.taken
              THEN [ticks EXCEPT !.packed = @ + 1, !.i = @ + 1]
              ELSE [ticks EXCEPT !.taken = 0, !.i = 0, !.at = "idle"]

EngineInit ==
  /\ ctx = StepContext
  /\ window = [i \in 1..kSamplesPerWindow |-> ZeroSample]
  /\ emitted = << >>
  /\ last_c = [op |-> "init", ret |-> FALSE, record |-> ConsolidatedRecord, samples |-> << >>,
               before |-> StepContext, accepted |-> 0, reported |-> 0,
               gaps |-> {}, quiet |-> {}, since |-> StepContext.samples_since_step,
               since_candidate |-> StepContext.samples_since_step]
  /\ stored = << >>
  /\ register_in = << >>
  /\ register_out = << >>
  /\ loop_at = "sensors"
  /\ erase_mark = 0 - 1
  /\ ticks = TicksInit
  /\ half = HalfInit

\* main.cpp:144-145, record{} and the call; the samples the call removed from
\* the ring are the samples of gRing before the call that are gone after it
Call_consolidate_from_ring ==
  LET r == consolidate_from_ring(gRing, window, ConsolidatedRecord, ctx)
      gone == SampleRingBuffer_size(gRing) - SampleRingBuffer_size(r.ring)
      e == Elapsed(r.window, ctx, r.ret)
  IN /\ Len(emitted) < MaxRecords
     /\ gRing' = r.ring
     /\ window' = r.window
     /\ ctx' = r.ctx
     /\ emitted' = IF r.ret THEN Append(emitted, r.record_out) ELSE emitted
     /\ popped_s' = popped_s \o SubSeq(SampleContents(gRing), 1, gone)
     /\ last_c' = [op |-> "consolidate_from_ring", ret |-> r.ret, record |-> r.record_out,
                   samples |-> IF r.ret THEN r.window ELSE << >>, before |-> ctx,
                   accepted |-> Tally(r).accepted, reported |-> Tally(r).reported,
                   gaps |-> e.gaps, quiet |-> e.quiet,
                   since |-> e.since, since_candidate |-> e.since_candidate]
     /\ UNCHANGED <<pushed_s, last_s, produced, stored, registerVars, demoVars, loopVars>>

\* heart rate and temperature of the samples of a window, in 1/Frac units,
\* first sample and increment per sample: 72.3125 and 36.59375; 72.5 and 36.5;
\* 7000 and 400; -1 and -400; 60, 61, .. and 37, 36.5, ..; 6552, 6556, .. and
\* 327, 328, ..  (all float16 values)
Vitals ==
  { [hr |-> 2314, temp |-> 1171, dhr |-> 0, dtemp |-> 0],
    [hr |-> 2320, temp |-> 1168, dhr |-> 0, dtemp |-> 0],
    [hr |-> 7000 * Frac, temp |-> 400 * Frac, dhr |-> 0, dtemp |-> 0],
    [hr |-> 0 - Frac, temp |-> 0 - 400 * Frac, dhr |-> 0, dtemp |-> 0],
    [hr |-> 60 * Frac, temp |-> 37 * Frac, dhr |-> Frac, dtemp |-> 0 - 16],
    [hr |-> 6552 * Frac, temp |-> 327 * Frac, dhr |-> 4 * Frac, dtemp |-> Frac] }

\* acceleration of sample i of a window of n: at rest (1 g on z), at rest under
\* 2 g, one swing in the middle of the window, and a raw-unit sensor at rest
Shapes == {"rest", "heavy", "swing", "raw"}

\* one swing in the middle, at the second sample, at the last but one, and at
\* both of these
DebounceShapes == {"swing", "early", "late", "wide"}

\* longer windows: at rest, and with one swing at either end
TimeoutShapes == {"rest", "early", "late"}

Accel(shape, n, i) ==
  IF shape = "rest" THEN [ax |-> 0, az |-> 1000]
  ELSE IF shape = "heavy" THEN [ax |-> 0, az |-> 2000]
  ELSE IF shape = "swing" THEN [ax |-> 0, az |-> IF i = (n + 1) \div 2 THEN 3000 ELSE 1000]
  ELSE IF shape = "early" THEN [ax |-> 0, az |-> IF i = 2 THEN 3000 ELSE 1000]
  ELSE IF shape = "late" THEN [ax |-> 0, az |-> IF i = n - 1 THEN 3000 ELSE 1000]
  ELSE IF shape = "wide" THEN [ax |-> 0, az |-> IF i \in {2, n - 1} THEN 3000 ELSE 1000]
  ELSE [ax |-> 16384000, az |-> 0]

WindowOf(shape, v, n) ==
  [i \in 1..n |-> Sample(Accel(shape, n, i).ax, 0, Accel(shape, n, i).az,
                         v.hr + (i - 1) * v.dhr, v.temp + (i - 1) * v.dtemp,
                         32 * Len(emitted) + i)]

\* the arrays handed to consolidate(): windows of every length and vitals for
\* the averages, windows of StepWindow samples for the step detector, and
\* the null pointer
WindowInputs ==
  IF focus = "averages"
  THEN {WindowOf(shape, v, n) : shape \in {"rest", "swing"}, v \in Vitals, n \in 1..MaxWindow}
         \cup {<< >>}
  ELSE IF focus = "timeout"
  THEN {WindowOf(shape, CHOOSE v \in Vitals : v.hr = 2320, QuietWindow) : shape \in TimeoutShapes}
  ELSE {WindowOf(shape, CHOOSE v \in Vitals : v.hr = 2320, StepWindow) :
          shape \in IF focus = "debounce" THEN DebounceShapes ELSE Shapes}

\* a call consolidate(samples, sample_count, record) with record{}
Call_consolidate ==
  \E samples \in WindowInputs :
    LET r == consolidate(samples, Len(samples), ConsolidatedRecord, ctx)
        e == Elapsed(samples, ctx, r.ret)
    IN /\ Len(emitted) < (IF focus = "averages" THEN MaxRecords ELSE MaxPasses)
       /\ ctx' = r.ctx
       /\ emitted' = IF r.ret THEN Append(emitted, r.record_out) ELSE emitted
       /\ last_c' = [op |-> "consolidate", ret |-> r.ret, record |-> r.record_out,
                     samples |-> samples, before |-> ctx,
                     accepted |-> Tally(r).accepted, reported |-> Tally(r).reported,
                     gaps |-> e.gaps, quiet |-> e.quiet,
                     since |-> e.since, since_candidate |-> e.since_candidate]
       /\ UNCHANGED <<window, stored, registerVars, demoVars, loopVars>>

concVars == <<g_mux, pc, loc, seq_ring, calls>>
engineVars == <<ctx, window, emitted, last_c, stored, registerVars, demoVars, loopVars>>
storeVars == <<file_exists, file, appends>>
bleVars == <<deviceConnected, subscribed, spc, count, fp, fp_pos, rec_index, packets_sent, delay_ms,
             gResetRingRequested, wall_clock>>
obsVars == <<command, sent, tried, n_start, n_complete, store_at_cmd, peer_at_cmd, before_cmd, disc_at,
             disturbed, cmds>>
protoVars == <<storeVars, bleVars, obsVars, store_obs>>
vars == <<pageVars, sampleVars, focus, concVars, engineVars, protoVars>>

\* ---------------------------------------------------------------------------
\* Record store (lib/storage/fs_store.cpp) and the bytes of a record
\* ---------------------------------------------------------------------------

\* consolidate.h:21, sizeof(ConsolidatedRecord) under #pragma pack(1)
RecordSize == 10

\* little-endian object representation of the fields of consolidate.h:13-18
U16Bytes(v) == <<v % 256, (v \div 256) % 256>>

I16Bytes(v) == U16Bytes(IF v < 0 THEN v + 65536 ELSE v)

U32Bytes(v) == <<v % 256, (v \div 256) % 256, (v \div 65536) % 256, (v \div 16777216) % 256>>

\* reinterpret_cast<const uint8_t*>(&record), fs_store.cpp:43 and ble_service.cpp:232
RecordBytes(record) ==
  U16Bytes(record.avg_hr_x10) \o I16Bytes(record.avg_temp_x100)
    \o U16Bytes(record.step_count) \o U32Bytes(record.timestamp)

U16At(bytes, i) == bytes[i] + 256 * bytes[i + 1]

I16At(bytes, i) == IF U16At(bytes, i) >= 32768 THEN U16At(bytes, i) - 65536 ELSE U16At(bytes, i)

U32At(bytes, i) == U16At(bytes, i) + 65536 * U16At(bytes, i + 2)

\* fp.read(reinterpret_cast<uint8_t*>(&record), sizeof(record)), fs_store.cpp:128-129
RecordOfBytes(bytes) ==
  [avg_hr_x10 |-> U16At(bytes, 1), avg_temp_x100 |-> I16At(bytes, 3),
   step_count |-> U16At(bytes, 5), timestamp |-> U32At(bytes, 7)]

\* the data file as the functions of fs_store see it
Store == [exists |-> file_exists, bytes |-> file]

\* fs_store.cpp:17-38 on a first boot: the mount succeeds and open "a" creates
\* the empty file
fs_store_begin == [exists |-> TRUE, bytes |-> << >>]

\* outcomes of LittleFS.open(.., "a") and fp.write: the whole record, a short
\* write of ShortWrite bytes, or a failed open
AppendOutcomes == {"written", "short_write", "open_fails"}

\* fs_store.cpp:40-46
fs_store_append(st, record, io) ==
  IF io = "open_fails" THEN [ret |-> FALSE, st |-> st]
  ELSE LET data == RecordBytes(record)
           written == IF io = "short_write" THEN Min(ShortWrite, Len(data)) ELSE Len(data)
       IN [ret |-> written = RecordSize,
           st |-> [exists |-> TRUE, bytes |-> st.bytes \o SubSeq(data, 1, written)]]

\* fs_store.cpp:87-101
fs_store_size(st) == IF ~st.exists THEN 0 ELSE Len(st.bytes)

\* outcomes of LittleFS.remove
EraseOutcomes == {"removed", "remove_fails"}

\* plausible bug: erasing a store whose file is not there reports failure
fs_store_erase_FailsIfMissing(st, io) ==
  IF st.exists
  THEN IF io = "removed" THEN [ret |-> TRUE, st |-> [exists |-> FALSE, bytes |-> << >>]]
       ELSE [ret |-> FALSE, st |-> st]
  ELSE [ret |-> FALSE, st |-> st]

\* fs_store.cpp:103-108
fs_store_erase(st, io) ==
  IF st.exists
  THEN IF io = "removed" THEN [ret |-> TRUE, st |-> [exists |-> FALSE, bytes |-> << >>]]
       ELSE [ret |-> FALSE, st |-> st]
  ELSE [ret |-> TRUE, st |-> st]

\* fs_store.cpp:110-113
fs_store_record_count(st) == fs_store_size(st) \div RecordSize

\* fs_store.cpp:126-142: the calls made to a visitor that returns false when
\* given index stop_at (and true otherwise), from position pos of the open file
RECURSIVE ReadLoop(_, _, _, _)
ReadLoop(bytes, pos, idx, stop_at) ==
  IF Len(bytes) - pos > 0 /\ Min(Len(bytes) - pos, RecordSize) = RecordSize
  THEN LET visit == [record |-> RecordOfBytes(SubSeq(bytes, pos + 1, pos + RecordSize)),
                     index |-> idx]
       IN IF idx = stop_at THEN <<visit>>
          ELSE <<visit>> \o ReadLoop(bytes, pos + RecordSize, idx + 1, stop_at)
  ELSE << >>

\* plausible bug: the loop stops one record before the end of the file
fs_store_for_each_record_SkipLast(st, callback, stop_at) ==
  IF ~callback THEN << >>
  ELSE IF ~st.exists THEN << >>
  ELSE ReadLoop(SubSeq(st.bytes, 1, Max(0, Len(st.bytes) - RecordSize)), 0, 0, stop_at)

\* plausible bug: the visitor's false return is ignored and the loop goes on
fs_store_for_each_record_IgnoreStop(st, callback, stop_at) ==
  IF ~callback THEN << >>
  ELSE IF ~st.exists THEN << >>
  ELSE ReadLoop(st.bytes, 0, 0, 0 - 1)

\* fs_store.cpp:115-145, run to its end: the visits made, for a callback that
\* is null (callback false) or returns false at index stop_at
fs_store_for_each_record(st, callback, stop_at) ==
  IF ~callback THEN << >>
  ELSE IF ~st.exists THEN << >>
  ELSE ReadLoop(st.bytes, 0, 0, stop_at)

\* the record that consolidation hands to loop() on its n-th append
\* (main.cpp:144-146): distinct records, a negative temperature, a timestamp
\* wider than 16 bits
RecordInputs ==
  { [avg_hr_x10 |-> 723 + appends,
     avg_temp_x100 |-> IF appends % 2 = 0 THEN 0 - 150 ELSE 3712,
     step_count |-> 1 + appends,
     timestamp |-> 70000 + 300 * appends] }

\* main.cpp:107-152, loop(): the pending ring reset is served, and a record
\* coming out of consolidation (if any) is appended to the store.  An append
\* made while for_each_record holds the file open may or may not be seen by
\* that handle; a handle that sees it reads the file as it is after the append,
\* so what the handle reads is always a prefix of the file.
loop ==
  \/ /\ gResetRingRequested
     /\ gResetRingRequested' = FALSE
     /\ UNCHANGED <<storeVars, deviceConnected, subscribed, spc, count, fp, fp_pos, rec_index,
                    packets_sent, delay_ms, wall_clock, obsVars>>
  \/ \E record \in RecordInputs, io \in AppendOutcomes, seen \in BOOLEAN :
       LET r == fs_store_append(Store, record, io)
       IN /\ appends < MaxAppends
          /\ (spc # "records" => seen)
          /\ gResetRingRequested' = FALSE
          /\ file_exists' = r.st.exists
          /\ file' = r.st.bytes
          /\ appends' = appends + 1
          /\ fp' = IF spc = "records" /\ seen THEN r.st.bytes ELSE fp
          /\ UNCHANGED <<deviceConnected, subscribed, spc, count, fp_pos, rec_index,
                         packets_sent, delay_ms, wall_clock, obsVars>>

\* ---------------------------------------------------------------------------
\* Bytes on the wire (lib/ble/ble_service.cpp)
\* ---------------------------------------------------------------------------

\* ble_service.cpp:10-14 and app_config.h:30-32, as ASCII
kStartMarker == 67
kDataMarker == 68
kEndMarker == 69
kAckMarker == 65
kTimePrefix == <<84, 73, 77, 69, 58>>
kCmdList == <<76, 73, 83, 84>>
kCmdSend == <<83, 69, 78, 68>>
kCmdErase == <<69, 82, 65, 83, 69>>

\* the labels given to send_ack, ble_service.cpp:99,117,119,124,134,201
LabelErased == <<69, 82, 65, 83, 69, 68>>
LabelTime == <<84, 73, 77, 69>>
LabelTimeErr == <<84, 73, 77, 69, 69, 82, 82>>
LabelUnknown == <<85, 78, 75, 78, 79, 87, 78>>
LabelNoConn == <<78, 79, 67, 79, 78, 78>>
LabelStreamErr == <<83, 84, 82, 69, 65, 77, 69, 82, 82>>

\* printf's %u
RECURSIVE Decimal(_)
Decimal(n) == IF n < 10 THEN <<48 + n>> ELSE Decimal(n \div 10) \o <<48 + (n % 10)>>

\* snprintf(buffer, n, ...) keeps n - 1 characters
snprintf(n, text) == SubSeq(text, 1, Min(Len(text), n - 1))

\* ble_service.cpp:147-149
StartMsg(n) == snprintf(16, <<kStartMarker>> \o Decimal(n))

\* the base64 alphabet of mbedtls
B64Char(v) ==
  IF v < 26 THEN 65 + v
  ELSE IF v < 52 THEN 97 + (v - 26)
  ELSE IF v < 62 THEN 48 + (v - 52)
  ELSE IF v = 62 THEN 43 ELSE 47

\* four characters for a group of one, two or three bytes, '=' padded
B64Group(g) ==
  LET b1 == g[1]
      b2 == IF Len(g) >= 2 THEN g[2] ELSE 0
      b3 == IF Len(g) >= 3 THEN g[3] ELSE 0
  IN << B64Char(b1 \div 4),
        B64Char((b1 % 4) * 16 + b2 \div 16),
        IF Len(g) >= 2 THEN B64Char((b2 % 16) * 4 + b3 \div 64) ELSE 61,
        IF Len(g) >= 3 THEN B64Char(b3 % 64) ELSE 61 >>

\* the one element of a singleton: its argument is computed once
Only(S) == CHOOSE v \in S : TRUE

\* character i of the output comes from the group of three bytes it encodes
B64Encode(src) ==
  Only({ [i \in 1..(((Len(s0) + 2) \div 3) * 4) |->
            B64Group(SubSeq(s0, 3 * ((i - 1) \div 4) + 1,
                            Min(3 * ((i - 1) \div 4) + 3, Len(s0))))[((i - 1) % 4) + 1]]
         : s0 \in {src} })

\* plausible bug: the encoder leaves out the '=' padding of the last group
mbedtls_base64_encode_Unpadded(dlen, src) ==
  LET n == (Len(src) * 4 + 2) \div 3
  IN IF Len(src) = 0 THEN [rc |-> 0, olen |-> 0, dst |-> << >>]
     ELSE IF dlen < n + 1 THEN [rc |-> 0 - 42, olen |-> n + 1, dst |-> << >>]
     ELSE [rc |-> 0, olen |-> n, dst |-> SubSeq(B64Encode(src), 1, n)]

\* mbedtls_base64_encode(dst, dlen, &olen, src, slen) as called at
\* ble_service.cpp:230-233: the output and its terminating NUL must fit dlen
mbedtls_base64_encode(dlen, src) ==
  LET n == ((Len(src) + 2) \div 3) * 4
  IN IF Len(src) = 0 THEN [rc |-> 0, olen |-> 0, dst |-> << >>]
     ELSE IF dlen < n + 1 THEN [rc |-> 0 - 42, olen |-> n + 1, dst |-> << >>]
     ELSE [rc |-> 0, olen |-> n, dst |-> B64Encode(src)]

\* ble_service.cpp:258-271: whether the frame is handed to the characteristic
notify_NoSubscriberCheck(data, length) ==
  IF ~deviceConnected \/ length = 0 THEN FALSE
  ELSE TRUE

notify(data, length) ==
  IF ~deviceConnected \/ length = 0 THEN FALSE
  ELSE IF ~subscribed THEN FALSE
  ELSE TRUE

\* what is kept of a command when the next one arrives
LastCommand ==
  [aborted |-> /\ command = kCmdSend
               /\ tried # << >>
               /\ tried[Len(tried)].data = <<kAckMarker>> \o LabelStreamErr,
   data |-> Cardinality({i \in 1..Len(tried) : tried[i].data[1] = kDataMarker})]

\* the frames of the command in hand and of a command that has sent nothing
Frames == [sent |-> sent, tried |-> tried]

NoFrames == [sent |-> << >>, tried |-> << >>]

Logged(frames) == sent' = frames.sent /\ tried' = frames.tried

\* the frames after a call notify(data, length)
Deliver(frames, data, length) ==
  [sent |-> IF notify(data, length) THEN Append(frames.sent, SubSeq(data, 1, length))
            ELSE frames.sent,
   tried |-> Append(frames.tried, [data |-> SubSeq(data, 1, length),
                                   ok |-> notify(data, length)])]

\* ble_service.cpp:228 and 241: the sizes of encoded[] and packet[]
kEncodedSize == 24
kPacketSize == 20

\* ble_service.cpp:226-246
send_record_packet(frames, record) ==
  Only({ IF e.rc # 0 \/ e.olen = 0 \/ e.olen > kEncodedSize THEN [ret |-> FALSE, frames |-> frames]
         ELSE [ret |-> notify(<<kDataMarker>> \o e.dst, e.olen + 1),
               frames |-> Deliver(frames, <<kDataMarker>> \o e.dst, e.olen + 1)]
         : e \in {mbedtls_base64_encode(kEncodedSize, RecordBytes(record))} })

\* plausible bug: a buffer too short for the longer labels
send_ack_ShortBuffer(frames, label) ==
  LET buffer == snprintf(8, <<kAckMarker>> \o label)
  IN Deliver(frames, buffer, Len(buffer))

\* ble_service.cpp:248-252
send_ack(frames, label) ==
  LET buffer == snprintf(20, <<kAckMarker>> \o label)
  IN Deliver(frames, buffer, Len(buffer))

\* ---------------------------------------------------------------------------
\* Commands and the export (lib/ble/ble_service.cpp, src/main.cpp)
\* ---------------------------------------------------------------------------

\* main.cpp:80-83: setup() registers the four hooks
onErase_ == TRUE
onTimeSync_ == TRUE
onTransferStart_ == TRUE
onTransferComplete_ == TRUE

IsSpace(c) == c = 32 \/ (c >= 9 /\ c <= 13)

IsDigit(c) == c >= 48 /\ c <= 57

\* c_str(): the characters before the first NUL
RECURSIVE c_str(_)
c_str(s) == IF s = << >> \/ Head(s) = 0 THEN << >> ELSE <<Head(s)>> \o c_str(Tail(s))

RECURSIVE SkipSpace(_)
SkipSpace(s) == IF s # << >> /\ IsSpace(Head(s)) THEN SkipSpace(Tail(s)) ELSE s

RECURSIVE DigitsValue(_, _)
DigitsValue(s, acc) ==
  IF s # << >> /\ IsDigit(Head(s)) THEN DigitsValue(Tail(s), acc * 10 + (Head(s) - 48))
  ELSE acc

\* atoll of the C library: blanks, an optional sign, then the leading digits
atoll(s) ==
  LET t == SkipSpace(s)
      signed == t # << >> /\ Head(t) \in {43, 45}
      digits == IF signed THEN Tail(t) ELSE t
  IN IF signed /\ Head(t) = 45 THEN 0 - DigitsValue(digits, 0) ELSE DigitsValue(digits, 0)

\* command.rfind(kTimePrefix, 0) == 0, ble_service.cpp:113
HasTimePrefix(cmd) ==
  Len(cmd) >= Len(kTimePrefix) /\ SubSeq(cmd, 1, Len(kTimePrefix)) = kTimePrefix

\* the locals of stream_all_records once it has returned
StreamIdle ==
  /\ spc' = "idle"
  /\ count' = 0
  /\ fp' = << >>
  /\ fp_pos' = 0
  /\ rec_index' = 0
  /\ packets_sent' = 0
  /\ delay_ms' = 0

\* plausible bug: the error path returns without the transfer-complete hook
stream_abort_NoComplete(frames) ==
  /\ Logged(send_ack(frames, LabelStreamErr))
  /\ UNCHANGED n_complete
  /\ StreamIdle

\* plausible bug: the export that failed still closes with the End marker
stream_abort_EndMarker(frames) ==
  /\ Logged(Deliver(frames, <<kEndMarker>>, 1))
  /\ n_complete' = IF onTransferComplete_ THEN n_complete + 1 ELSE n_complete
  /\ StreamIdle

\* ble_service.cpp:200-204
stream_abort(frames) ==
  /\ Logged(send_ack(frames, LabelStreamErr))
  /\ n_complete' = IF onTransferComplete_ THEN n_complete + 1 ELSE n_complete
  /\ StreamIdle

\* plausible bug: an export that ends well leaves out the End marker
stream_finish_NoEndMarker(frames) ==
  /\ Logged(frames)
  /\ n_complete' = IF onTransferComplete_ THEN n_complete + 1 ELSE n_complete
  /\ StreamIdle

\* ble_service.cpp:219-223
stream_finish(frames) ==
  /\ Logged(Deliver(frames, <<kEndMarker>>, 1))
  /\ n_complete' = IF onTransferComplete_ THEN n_complete + 1 ELSE n_complete
  /\ StreamIdle

\* ble_service.cpp:153: the delay after the Start frame
kStartDelayMs == 10

\* plausible bug: the thresholds are tested before the packet is counted
PacingDelay_BeforeCount(sent_so_far) ==
  IF sent_so_far - 1 < 10 THEN 5
  ELSE IF sent_so_far - 1 < 50 THEN 10
  ELSE 15

\* ble_service.cpp:189-195: the milliseconds of the delay that follows a Data
\* frame, given packets_sent after its increment at line 177
PacingDelay(sent_so_far) ==
  IF sent_so_far < 10 THEN 5
  ELSE IF sent_so_far < 50 THEN 10
  ELSE 15

\* fs_store.cpp:127-144 with the callback of ble_service.cpp:162-198: one turn
\* of the loop over the open file, up to the callback's vTaskDelay, to the
\* callback's refusal (the file is closed, success is false) or to the end of
\* the export
for_each_record(bytes, pos, idx) ==
  LET available == Len(bytes) - pos
      read_bytes == Min(available, RecordSize)
  IN IF available > 0 /\ read_bytes = RecordSize
     THEN \E r \in {send_record_packet(Frames, RecordOfBytes(SubSeq(bytes, pos + 1, pos + RecordSize)))} :
             IF r.ret
             THEN /\ Logged(r.frames)
                  /\ packets_sent' = packets_sent + 1
                  /\ delay_ms' = PacingDelay(packets_sent')
                  /\ fp' = bytes
                  /\ fp_pos' = pos + RecordSize
                  /\ rec_index' = idx + 1
                  /\ spc' = "records"
                  /\ UNCHANGED <<count, n_complete>>
             ELSE /\ Logged(r.frames)
                  /\ spc' = "aborting"
                  /\ fp' = << >>
                  /\ fp_pos' = 0
                  /\ rec_index' = idx
                  /\ delay_ms' = 0
                  /\ UNCHANGED <<count, packets_sent, n_complete>>
     ELSE stream_finish(Frames)

\* plausible bug: the transfer-start hook runs before the connection check
stream_all_records_HookBeforeCheck ==
  IF ~deviceConnected
  THEN /\ Logged(send_ack(NoFrames, LabelNoConn))
       /\ n_start' = IF onTransferStart_ THEN 1 ELSE 0
       /\ n_complete' = 0
       /\ StreamIdle
  ELSE /\ n_start' = IF onTransferStart_ THEN 1 ELSE 0
       /\ n_complete' = 0
       /\ count' = fs_store_record_count(Store)
       /\ Logged(Deliver(NoFrames, StartMsg(count'), Len(StartMsg(count'))))
       /\ spc' = "start_delay"
       /\ fp' = << >>
       /\ fp_pos' = 0
       /\ rec_index' = 0
       /\ packets_sent' = 0
       /\ delay_ms' = kStartDelayMs

\* ble_service.cpp:131-153: stream_all_records up to its first vTaskDelay
stream_all_records ==
  IF ~deviceConnected
  THEN /\ Logged(send_ack(NoFrames, LabelNoConn))
       /\ n_start' = 0
       /\ n_complete' = 0
       /\ StreamIdle
  ELSE /\ n_start' = IF onTransferStart_ THEN 1 ELSE 0
       /\ n_complete' = 0
       /\ count' = fs_store_record_count(Store)
       /\ Logged(Deliver(NoFrames, StartMsg(count'), Len(StartMsg(count'))))
       /\ spc' = "start_delay"
       /\ fp' = << >>
       /\ fp_pos' = 0
       /\ rec_index' = 0
       /\ packets_sent' = 0
       /\ delay_ms' = kStartDelayMs

\* main.cpp:26-35
handle_ble_erase(io) ==
  /\ file_exists' = fs_store_erase(Store, io).st.exists
  /\ file' = fs_store_erase(Store, io).st.bytes
  /\ gResetRingRequested' = TRUE

\* main.cpp:37-44
handle_ble_time_sync(epoch) == wall_clock' = epoch

\* ble_service.cpp:89-125
handle_command(cmd) ==
  IF cmd = kCmdSend
  THEN /\ stream_all_records
       /\ UNCHANGED <<file_exists, file, gResetRingRequested, wall_clock>>
  ELSE /\ n_start' = 0
       /\ n_complete' = 0
       /\ StreamIdle
       /\ IF cmd = kCmdErase
          THEN /\ \E io \in EraseOutcomes :
                    IF onErase_ THEN handle_ble_erase(io)
                    ELSE UNCHANGED <<file_exists, file, gResetRingRequested>>
               /\ Logged(send_ack(NoFrames, LabelErased))
               /\ UNCHANGED wall_clock
          ELSE IF cmd = kCmdList
          THEN /\ LET buffer == snprintf(16, <<76>> \o Decimal(fs_store_record_count(Store)))
                  IN Logged(Deliver(NoFrames, buffer, Len(buffer)))
               /\ UNCHANGED <<file_exists, file, gResetRingRequested, wall_clock>>
          ELSE IF HasTimePrefix(cmd)
          THEN LET epoch == atoll(SubSeq(c_str(cmd), Len(kTimePrefix) + 1, Len(c_str(cmd))))
               IN /\ IF epoch > 0 /\ onTimeSync_
                     THEN /\ handle_ble_time_sync(epoch)
                          /\ Logged(send_ack(NoFrames, LabelTime))
                     ELSE /\ Logged(send_ack(NoFrames, LabelTimeErr))
                          /\ UNCHANGED wall_clock
                  /\ UNCHANGED <<file_exists, file, gResetRingRequested>>
          ELSE /\ Logged(send_ack(NoFrames, LabelUnknown))
               /\ UNCHANGED <<file_exists, file, gResetRingRequested, wall_clock>>

\* the values a peer writes to the control characteristic: the three fixed
\* commands, TIME: with the payloads 17, 0, -5, abc and 12a, the unknown word
\* PING and the empty value
Commands ==
  { kCmdSend, kCmdErase, kCmdList,
    kTimePrefix \o <<49, 55>>, kTimePrefix \o <<48>>, kTimePrefix \o <<45, 53>>,
    kTimePrefix \o <<97, 98, 99>>, kTimePrefix \o <<49, 50, 97>>,
    <<80, 73, 78, 71>>, << >> }

\* ble_service.cpp:81-87: a write to the control characteristic.  The handler
\* returns before the next write is served.
onWrite ==
  \E value \in Commands :
    /\ spc = "idle"
    /\ cmds < MaxCmds
    /\ cmds' = cmds + 1
    /\ command' = value
    /\ store_at_cmd' = Store
    /\ peer_at_cmd' = [connected |-> deviceConnected, subscribed |-> subscribed]
    /\ before_cmd' = LastCommand
    /\ disc_at' = 0 - 1
    /\ disturbed' = FALSE
    /\ IF value # << >> THEN handle_command(value)
       ELSE /\ Logged(NoFrames)
            /\ n_start' = 0
            /\ n_complete' = 0
            /\ StreamIdle
            /\ UNCHANGED <<file_exists, file, gResetRingRequested, wall_clock>>
    /\ UNCHANGED <<appends, deviceConnected, subscribed>>

\* plausible bug: after an aborted export the next one goes on from the
\* records that export had tried
stream_records_Resume ==
  /\ spc = "start_delay"
  /\ IF count > 0 /\ file_exists
     THEN IF before_cmd.aborted
          THEN for_each_record(file, RecordSize * before_cmd.data, before_cmd.data)
          ELSE for_each_record(file, 0, 0)
     ELSE stream_finish(Frames)
  /\ UNCHANGED <<storeVars, deviceConnected, subscribed, gResetRingRequested, wall_clock,
                 command, n_start, store_at_cmd, peer_at_cmd, before_cmd, disc_at, disturbed, cmds>>

\* ble_service.cpp:153-161: the export resumes after the delay that follows
\* the Start frame, opens the file and runs the first turn of the loop
\* (fs_store.cpp:115-125)
stream_records ==
  /\ spc = "start_delay"
  /\ IF count > 0 /\ file_exists THEN for_each_record(file, 0, 0)
     ELSE stream_finish(Frames)
  /\ UNCHANGED <<storeVars, deviceConnected, subscribed, gResetRingRequested, wall_clock,
                 command, n_start, store_at_cmd, peer_at_cmd, before_cmd, disc_at, disturbed, cmds>>

\* ble_service.cpp:189-197: the export resumes after the pacing delay
stream_next ==
  /\ spc = "records"
  /\ for_each_record(fp, fp_pos, rec_index)
  /\ UNCHANGED <<storeVars, deviceConnected, subscribed, gResetRingRequested, wall_clock,
                 command, n_start, store_at_cmd, peer_at_cmd, before_cmd, disc_at, disturbed, cmds>>

\* ble_service.cpp:200-204: the export, after a Data frame that notify refused,
\* goes on to its error ack
stream_error ==
  /\ spc = "aborting"
  /\ stream_abort(Frames)
  /\ UNCHANGED <<storeVars, deviceConnected, subscribed, gResetRingRequested, wall_clock,
                 command, n_start, store_at_cmd, peer_at_cmd, before_cmd, disc_at, disturbed, cmds>>

PeerUnchanged ==
  UNCHANGED <<storeVars, spc, count, fp, fp_pos, rec_index, packets_sent, delay_ms, gResetRingRequested,
              wall_clock, command, sent, tried, n_start, n_complete, store_at_cmd, peer_at_cmd,
              before_cmd, cmds>>

\* ble_service.cpp:67-70: a peer connects; it has no subscription yet
onConnect ==
  /\ ~deviceConnected
  /\ deviceConnected' = TRUE
  /\ subscribed' = FALSE
  /\ UNCHANGED <<disc_at, disturbed>>
  /\ PeerUnchanged

\* ble_service.cpp:72-75: the peer is gone, and its subscription with it
onDisconnect ==
  /\ deviceConnected
  /\ deviceConnected' = FALSE
  /\ subscribed' = FALSE
  /\ disc_at' = IF spc # "idle" /\ disc_at < 0 THEN Len(sent) ELSE disc_at
  /\ disturbed' = (disturbed \/ spc # "idle")
  /\ PeerUnchanged

\* the peer enables notifications on the data characteristic
\* (getSubscribedCount() > 0 from then on, ble_service.cpp:263)
Subscribe ==
  /\ deviceConnected
  /\ ~subscribed
  /\ subscribed' = TRUE
  /\ UNCHANGED <<deviceConnected, disc_at, disturbed>>
  /\ PeerUnchanged

\* the peer disables notifications
Unsubscribe ==
  /\ subscribed
  /\ subscribed' = FALSE
  /\ disturbed' = (disturbed \/ spc # "idle")
  /\ UNCHANGED <<deviceConnected, disc_at>>
  /\ PeerUnchanged

StoreObsInit ==
  [op |-> "begin", prev |-> "none", io |-> "none", ret |-> 1, visits |-> << >>, stop_at |-> 0 - 1,
   appended |-> << >>, failed |-> FALSE, calls |-> 0]

StoreRestUnchanged == UNCHANGED <<bleVars, obsVars>>

\* a call fs_store::append(record)
Call_append ==
  \E record \in RecordInputs, io \in AppendOutcomes :
    LET r == fs_store_append(Store, record, io)
    IN /\ store_obs.calls < MaxStoreCalls
       /\ file_exists' = r.st.exists
       /\ file' = r.st.bytes
       /\ appends' = appends + 1
       /\ store_obs' = [store_obs EXCEPT !.op = "append", !.prev = store_obs.op, !.io = io,
                          !.ret = IF r.ret THEN 1 ELSE 0, !.visits = << >>, !.stop_at = 0 - 1,
                          !.appended = IF r.ret THEN Append(@, record) ELSE @,
                          !.failed = @ \/ ~r.ret,
                          !.calls = @ + 1]
       /\ StoreRestUnchanged

\* a call fs_store::erase()
Call_erase ==
  \E io \in EraseOutcomes :
    LET r == fs_store_erase(Store, io)
    IN /\ store_obs.calls < MaxStoreCalls
       /\ (~file_exists => io = "removed")
       /\ file_exists' = r.st.exists
       /\ file' = r.st.bytes
       /\ store_obs' = [store_obs EXCEPT !.op = "erase", !.prev = store_obs.op, !.io = io,
                          !.ret = IF r.ret THEN 1 ELSE 0, !.visits = << >>, !.stop_at = 0 - 1,
                          !.appended = IF r.ret THEN << >> ELSE @,
                          !.failed = IF r.ret THEN FALSE ELSE @,
                          !.calls = @ + 1]
       /\ UNCHANGED appends
       /\ StoreRestUnchanged

\* a call fs_store::record_count()
Call_record_count ==
  /\ store_obs.calls < MaxStoreCalls
  /\ store_obs' = [store_obs EXCEPT !.op = "record_count", !.prev = store_obs.op, !.io = "none",
                     !.ret = fs_store_record_count(Store), !.visits = << >>,
                     !.stop_at = 0 - 1, !.calls = @ + 1]
  /\ UNCHANGED storeVars
  /\ StoreRestUnchanged

\* a call fs_store::for_each_record(callback), with a callback that returns
\* false at index stop_at, or never (stop_at -1)
Call_for_each_record ==
  \E stop_at \in (0 - 1)..1 :
    /\ store_obs.calls < MaxStoreCalls
    /\ store_obs' = [store_obs EXCEPT !.op = "for_each_record", !.prev = store_obs.op, !.io = "none",
                       !.ret = 1, !.stop_at = stop_at,
                       !.visits = fs_store_for_each_record(Store, TRUE, stop_at),
                       !.calls = @ + 1]
    /\ UNCHANGED storeVars
    /\ StoreRestUnchanged

\* main.cpp:107-152, one pass of loop() after sensors_loop(): the pending
\* ring reset, consolidate_from_ring and the append of its record
store_window(ring) ==
  LET r == consolidate_from_ring(ring, window, ConsolidatedRecord, ctx)
      gone == SampleRingBuffer_size(ring) - SampleRingBuffer_size(r.ring)
      e == Elapsed(r.window, ctx, r.ret)
  IN \E io \in AppendOutcomes :
       LET a == fs_store_append(Store, r.record_out, io)
       IN /\ (~r.ret => io = "written")
          /\ gRing' = r.ring
          /\ popped_s' = popped_s \o SubSeq(SampleContents(ring), 1, gone)
          /\ window' = r.window
          /\ ctx' = r.ctx
          /\ emitted' = IF r.ret THEN Append(emitted, r.record_out) ELSE emitted
          /\ last_c' = [op |-> "consolidate_from_ring", ret |-> r.ret, record |-> r.record_out,
                        samples |-> IF r.ret THEN r.window ELSE << >>, before |-> ctx,
                        accepted |-> Tally(r).accepted, reported |-> Tally(r).reported,
                        gaps |-> e.gaps, quiet |-> e.quiet,
                        since |-> e.since, since_candidate |-> e.since_candidate]
          /\ stored' = IF r.ret
                        THEN Append(stored, [record |-> r.record_out, window |-> r.window, ok |-> a.ret])
                        ELSE stored
          /\ file_exists' = IF r.ret THEN a.st.exists ELSE file_exists
          /\ file' = IF r.ret THEN a.st.bytes ELSE file
          /\ appends' = IF r.ret THEN appends + 1 ELSE appends
          /\ command' = IF r.ret THEN << >> ELSE command
          /\ UNCHANGED <<last_s, produced, deviceConnected, subscribed, spc, count, fp, fp_pos,
                         rec_index, packets_sent, delay_ms, wall_clock, sent, tried, n_start, n_complete,
                         store_at_cmd, peer_at_cmd, before_cmd, disc_at, disturbed, cmds, store_obs,
                         registerVars, demoVars>>

loop_consolidate ==
  LET ring == IF gResetRingRequested THEN SampleRingBuffer_clear(gRing) ELSE gRing
  IN /\ store_window(ring)
     /\ gResetRingRequested' = FALSE
     /\ pushed_s' = IF gResetRingRequested THEN popped_s \o SampleContents(ring) ELSE pushed_s
     /\ UNCHANGED loopVars

\* the wrist swinging at every other sample
LoopInputs ==
  { Sample(IF produced % 2 = 0 THEN 900 ELSE 0, 0, 1000, 60 * Frac, 37 * Frac, produced + 1) }

\* plausible bug: sensors_loop() serves every tick missed since the last pass
sensors_loop_Burst ==
  /\ loop_at = "sensors"
  /\ loop_at' \in {"sensors", "reset"}
  /\ \/ UNCHANGED sampleVars
     \/ Call_push(LoopInputs)
  /\ UNCHANGED <<ctx, window, emitted, last_c, stored, registerVars, demoVars, erase_mark, protoVars>>

\* sensors_main.cpp:297-300 with sampleImu (254-282): sensors_loop() serves the
\* IMU flag, if it is due, with one sample, which it pushes
sensors_loop ==
  /\ loop_at = "sensors"
  /\ loop_at' = "reset"
  /\ \/ UNCHANGED sampleVars
     \/ Call_push(LoopInputs)
  /\ UNCHANGED <<ctx, window, emitted, last_c, stored, registerVars, demoVars, erase_mark, protoVars>>

\* main.cpp:107-108: the test of gResetRingRequested and gRing.clear()
loop_reset ==
  /\ loop_at = "reset"
  /\ IF gResetRingRequested
     THEN /\ gRing' = SampleRingBuffer_clear(gRing)
          /\ pushed_s' = popped_s
          /\ loop_at' = "clearing"
     ELSE /\ UNCHANGED <<gRing, pushed_s>>
          /\ loop_at' = "consolidate"
  /\ UNCHANGED <<popped_s, last_s, produced, ctx, window, emitted, last_c, stored, registerVars, demoVars,
                 erase_mark, protoVars>>

\* main.cpp:109: gResetRingRequested = false
loop_reset_done ==
  /\ loop_at = "clearing"
  /\ loop_at' = "consolidate"
  /\ gResetRingRequested' = FALSE
  /\ UNCHANGED <<sampleVars, ctx, window, emitted, last_c, stored, registerVars, demoVars, erase_mark,
                 storeVars, deviceConnected, subscribed, spc, count, fp, fp_pos, rec_index,
                 packets_sent, delay_ms, wall_clock, obsVars, store_obs>>

\* main.cpp:144-152: consolidate_from_ring and the append of its record
loop_store ==
  /\ loop_at = "consolidate"
  /\ loop_at' = "sensors"
  /\ store_window(gRing)
  /\ UNCHANGED <<gResetRingRequested, pushed_s, erase_mark>>

\* ble_service.cpp:97-100 with main.cpp:26-35: the ERASE command as the
\* store and the main loop see it
erase_command ==
  \E io \in EraseOutcomes :
    /\ cmds < MaxCmds
    /\ (~file_exists => io = "removed")
    /\ cmds' = cmds + 1
    /\ command' = kCmdErase
    /\ IF onErase_ THEN handle_ble_erase(io)
       ELSE UNCHANGED <<file_exists, file, gResetRingRequested>>
    /\ Logged(send_ack(NoFrames, LabelErased))
    /\ stored' = IF ~file_exists' THEN << >> ELSE stored
    /\ erase_mark' = IF ~file_exists' THEN produced ELSE erase_mark
    /\ before_cmd' = LastCommand
    /\ UNCHANGED <<sampleVars, ctx, window, emitted, last_c, appends, deviceConnected, subscribed,
                   spc, count, fp, fp_pos, rec_index, packets_sent, delay_ms, wall_clock, n_start,
                   n_complete, store_at_cmd, peer_at_cmd, disc_at, disturbed, store_obs,
                   registerVars, demoVars, loop_at>>

\* after setup(): fs_store::begin, bleServer.begin, nothing connected
ProtoInit ==
  /\ file_exists = fs_store_begin.exists
  /\ file = fs_store_begin.bytes
  /\ appends = 0
  /\ deviceConnected = FALSE
  /\ subscribed = FALSE
  /\ spc = "idle"
  /\ count = 0
  /\ fp = << >>
  /\ fp_pos = 0
  /\ rec_index = 0
  /\ packets_sent = 0
  /\ delay_ms = 0
  /\ gResetRingRequested = FALSE
  /\ wall_clock = 0
  /\ command = << >>
  /\ sent = << >>
  /\ tried = << >>
  /\ n_start = 0
  /\ n_complete = 0
  /\ store_at_cmd = fs_store_begin
  /\ peer_at_cmd = [connected |-> FALSE, subscribed |-> FALSE]
  /\ before_cmd = [aborted |-> FALSE, data |-> 0]
  /\ disc_at = 0 - 1
  /\ disturbed = FALSE
  /\ cmds = 0
  /\ store_obs = StoreObsInit

PageInit ==
  /\ g_ring = PageRingInit.g_ring
  /\ g_head = 0
  /\ g_tail = 0
  /\ g_count = 0
  /\ pushed_256 = << >>
  /\ popped_256 = << >>
  /\ overwrites_256 = 0
  /\ last_256 = [op |-> "init", ret |-> TRUE, out |-> NULL]

SampleInit ==
  /\ gRing = SampleRingBuffer
  /\ pushed_s = << >>
  /\ popped_s = << >>
  /\ last_s = [op |-> "init", ret |-> TRUE, out |-> ZeroSample]
  /\ produced = 0

(***************************************************************************)
(* consolidate on a register buffer, as test_consolidate.cpp calls it.  Its *)
(* definition is not part of the sources at hand (consolidate.h:38-40       *)
(* declares the Sample overload only); it is modelled from what the test    *)
(* states about its output.                                                 *)
(***************************************************************************)
\* app_config.h:21
kRegisterSize == 256

\* test_consolidate.cpp:22, 26: the bytes kept and covered by the checksum
kPayloadBytes == 32

\* expected_checksum ^= input[i] (test_consolidate.cpp:27) on uint8_t, bit by bit
RECURSIVE BitXor(_, _, _)
BitXor(a, b, bits) ==
  IF bits = 0 THEN 0
  ELSE ((a + b) % 2) + 2 * BitXor(a \div 2, b \div 2, bits - 1)

\* test_consolidate.cpp:25-28: the checksum of the first n bytes
RECURSIVE XorChecksum(_, _)
XorChecksum(data, n) ==
  IF n = 0 THEN 0 ELSE BitXor(XorChecksum(data, n - 1), data[n], 8)

\* plausible bug: the checksum runs one byte too far
consolidate_register_OneTooFar(data, len) ==
  SubSeq(data, 1, kPayloadBytes) \o <<XorChecksum(data, kPayloadBytes + 1)>>

\* consolidate(input, kRegisterSize, out): the bytes left in out
consolidate_register(data, len) ==
  SubSeq(data, 1, kPayloadBytes) \o <<XorChecksum(data, kPayloadBytes)>>

\* test_consolidate.cpp:13-16 fills the buffer with i & 0xFF; here with
\* (stride * i + offset) & 0xFF
RegisterInputs ==
  { [i \in 1..kRegisterSize |-> (stride * (i - 1) + offset) % 256] :
      stride \in 0..MaxStride, offset \in 0..MaxOffset }

\* test_consolidate.cpp:18-19
Call_consolidate_register ==
  \E data \in RegisterInputs :
    /\ register_in' = data
    /\ register_out' = consolidate_register(data, kRegisterSize)
    /\ UNCHANGED <<ctx, window, emitted, last_c, stored, loopVars, demoVars>>

\* The page ring and gRing share no state, so a run calls one or the other.
InitRing == PageInit /\ SampleInit /\ ConcInit /\ EngineInit /\ ProtoInit /\ focus \in {"page_ring", "sample_ring"}

NextRing ==
  \/ focus = "page_ring" /\ Call_begin /\ UNCHANGED <<sampleVars, focus, concVars, engineVars, protoVars>>
  \/ focus = "page_ring" /\ Call_push_256 /\ UNCHANGED <<sampleVars, focus, concVars, engineVars, protoVars>>
  \/ focus = "page_ring" /\ Call_pop_256 /\ UNCHANGED <<sampleVars, focus, concVars, engineVars, protoVars>>
  \/ focus = "page_ring" /\ Call_size /\ UNCHANGED <<sampleVars, focus, concVars, engineVars, protoVars>>
  \/ focus = "sample_ring" /\ Call_push(RestInputs) /\ UNCHANGED <<pageVars, focus, concVars, engineVars, protoVars>>
  \/ focus = "sample_ring" /\ Call_pop /\ UNCHANGED <<pageVars, focus, concVars, engineVars, protoVars>>
  \/ focus = "sample_ring" /\ Call_peek /\ UNCHANGED <<pageVars, focus, concVars, engineVars, protoVars>>
  \/ focus = "sample_ring" /\ Call_clear /\ UNCHANGED <<pageVars, focus, concVars, engineVars, protoVars>>

SpecRing == InitRing /\ [][NextRing]_vars

ConcStep(A) ==
  A /\ UNCHANGED <<pushed_256, popped_256, overwrites_256, last_256, sampleVars, focus,
                 engineVars, protoVars>>

InitConc == PageInit /\ SampleInit /\ ConcInit /\ EngineInit /\ ProtoInit /\ focus = "page_ring"

NextConc ==
  \E c \in Contexts :
    \/ ConcStep(Enter(c))
    \/ ConcStep(Lock(c))
    \/ ConcStep(Push_copy(c))
    \/ ConcStep(Push_head(c))
    \/ ConcStep(Push_test(c))
    \/ ConcStep(Push_count(c))
    \/ ConcStep(Push_tail(c))
    \/ ConcStep(Pop_test(c))
    \/ ConcStep(Pop_copy(c))
    \/ ConcStep(Pop_tail(c))
    \/ ConcStep(Pop_count(c))
    \/ ConcStep(Begin_count(c))
    \/ ConcStep(Begin_tail(c))
    \/ ConcStep(Begin_head(c))
    \/ ConcStep(Size_read(c))
    \/ ConcStep(Unlock(c))

SpecConc == InitConc /\ [][NextConc]_vars

InitEngine == PageInit /\ SampleInit /\ ConcInit /\ EngineInit /\ ProtoInit /\ focus = "sample_ring"

\* the calls main.cpp's loop task makes on gRing: sampleImu's push, the ring
\* reset and consolidate_from_ring
NextEngine ==
  \/ Call_push(SampleInputs) /\ UNCHANGED <<pageVars, focus, concVars, engineVars, protoVars>>
  \/ Call_clear /\ UNCHANGED <<pageVars, focus, concVars, engineVars, protoVars>>
  \/ Call_consolidate_from_ring /\ UNCHANGED <<pageVars, focus, concVars, protoVars>>

SpecEngine == InitEngine /\ [][NextEngine]_vars

\* consolidate() on its own, called on window after window.
InitWindow ==
  /\ PageInit /\ SampleInit /\ ConcInit /\ EngineInit /\ ProtoInit
  /\ focus \in {"averages", "steps", "debounce", "timeout"}

NextWindow == Call_consolidate /\ UNCHANGED <<pageVars, sampleVars, focus, concVars, protoVars>>

SpecWindow == InitWindow /\ [][NextWindow]_vars

\* consolidate on register buffers, called on buffer after buffer.
InitRegister == PageInit /\ SampleInit /\ ConcInit /\ EngineInit /\ ProtoInit /\ focus = "register"

NextRegister == Call_consolidate_register /\ UNCHANGED <<pageVars, sampleVars, focus, concVars, protoVars>>

SpecRegister == InitRegister /\ [][NextRegister]_vars

\* The tick handoff of demo_interrupts.cpp (focus "worker") and of
\* health_pack_demo.cpp (focus "loop_ticks"): the timer fires at any moment.
InitTicks ==
  /\ PageInit /\ SampleInit /\ ConcInit /\ EngineInit /\ ProtoInit
  /\ focus \in {"worker", "loop_ticks"}

TicksRest ==
  UNCHANGED <<pageVars, sampleVars, focus, concVars, ctx, window, emitted, last_c, stored,
              registerVars, loopVars, half, protoVars>>

NextTicks ==
  \/ imu_timer_cb /\ TicksRest
  \/ worker_pass /\ TicksRest
  \/ worker_take /\ TicksRest
  \/ worker_pack /\ TicksRest
  \/ loop_take /\ TicksRest
  \/ loop_pack /\ TicksRest

SpecTicks == InitTicks /\ [][NextTicks]_vars

\* float16 alone: any 16 bits are read as a float and the float is stored
\* again; floats that are no float16 value are stored too (a value with
\* mantissa bits below the 10 kept, one above the float16 range, one below
\* it, and the carry of the rounding into the exponent).
FloatInputs ==
  { Float(s, e, m) : s \in {0, 1}, e \in {0, 100, 103, 112, 113, 127, 142, 143, 255},
                     m \in {0, 4096, 8191, 8384511, 8388607} }

HalfRest ==
  UNCHANGED <<pageVars, sampleVars, focus, concVars, ctx, window, emitted, last_c, stored,
              registerVars, loopVars, ticks, protoVars>>

InitHalf == PageInit /\ SampleInit /\ ConcInit /\ EngineInit /\ ProtoInit /\ focus = "float16"

NextHalf ==
  \/ float16_bits /\ HalfRest
  \/ float16_read /\ HalfRest
  \/ float16_construct(FloatInputs) /\ HalfRest

SpecHalf == InitHalf /\ [][NextHalf]_vars

\* The record store on its own, under any sequence of calls.
InitStore == PageInit /\ SampleInit /\ ConcInit /\ EngineInit /\ ProtoInit /\ focus = "store"

StoreCallRest == UNCHANGED <<pageVars, sampleVars, focus, concVars, engineVars>>

NextStore ==
  \/ Call_append /\ StoreCallRest
  \/ Call_erase /\ StoreCallRest
  \/ Call_record_count /\ StoreCallRest
  \/ Call_for_each_record /\ StoreCallRest

SpecStore == InitStore /\ [][NextStore]_vars

\* Samples from the sensors to the store and back: main.cpp's loop() with the
\* sensor pushes, the ERASE command and a reader of the store.
InitLoop == PageInit /\ SampleInit /\ ConcInit /\ EngineInit /\ ProtoInit /\ focus = "loop"

NextLoop ==
  \/ Call_push(LoopInputs) /\ UNCHANGED <<pageVars, focus, concVars, engineVars, protoVars>>
  \/ loop_consolidate /\ UNCHANGED <<pageVars, focus, concVars>>
  \/ erase_command /\ UNCHANGED <<pageVars, focus, concVars>>
  \/ store_obs.calls < MaxReads /\ Call_for_each_record /\ StoreCallRest

SpecLoop == InitLoop /\ [][NextLoop]_vars

\* The same with loop() taken statement by statement, the ERASE handler
\* running on the BLE task between any two of them.
InitMain == PageInit /\ SampleInit /\ ConcInit /\ EngineInit /\ ProtoInit /\ focus = "main"

NextMain ==
  \/ sensors_loop /\ UNCHANGED <<pageVars, focus, concVars>>
  \/ loop_reset /\ UNCHANGED <<pageVars, focus, concVars>>
  \/ loop_reset_done /\ UNCHANGED <<pageVars, focus, concVars>>
  \/ loop_store /\ UNCHANGED <<pageVars, focus, concVars>>
  \/ erase_command /\ UNCHANGED <<pageVars, focus, concVars>>

SpecMain == InitMain /\ [][NextMain]_vars

\* The record store, the main loop's appends, the peer and the BLE commands.
Init == PageInit /\ SampleInit /\ ConcInit /\ EngineInit /\ ProtoInit /\ focus = "protocol"

RestUnchanged == UNCHANGED <<pageVars, sampleVars, focus, concVars, engineVars, store_obs>>

Next ==
  \/ loop /\ RestUnchanged
  \/ onConnect /\ RestUnchanged
  \/ onDisconnect /\ RestUnchanged
  \/ Subscribe /\ RestUnchanged
  \/ Unsubscribe /\ RestUnchanged
  \/ onWrite /\ RestUnchanged
  \/ stream_records /\ RestUnchanged
  \/ stream_next /\ RestUnchanged
  \/ stream_error /\ RestUnchanged

Spec == Init /\ [][Next]_vars

\* ble_service.cpp:153, 189-195: a vTaskDelay of the export returns and the
\* export goes on to its next send or to its end
export_resumes == stream_records \/ stream_next \/ stream_error

\* The same, with the BLE task scheduled: no vTaskDelay lasts forever.  Every
\* step of the export changes spc or rec_index.
SpecLive == Init /\ [][Next]_vars /\ WF_<<spc, rec_index>>(export_resumes)

\* the k-th record of a store filled by loop()
\* (main.cpp:144-146), the fields running over the range of their types
\* (record 0 holds 65535 and the most negative temperature)
PacedRecord(k) ==
  [avg_hr_x10 |-> (65535 + 1285 * k) % 65536,
   avg_temp_x100 |-> ((1313 * k) % 65536) - 32768,
   step_count |-> (4369 * k) % 65536,
   timestamp |-> 40000000 * k]

\* the bytes of a store that holds n such records
PacedFile(n) ==
  [i \in 1..(RecordSize * n) |->
     RecordBytes(PacedRecord((i - 1) \div RecordSize))[((i - 1) % RecordSize) + 1]]

\* Long exports: the store holds up to MaxPaced records from earlier passes
\* of loop(), a peer is connected and has subscribed; the peer writes one
\* command and may unsubscribe or disconnect during the export.
InitPacing ==
  /\ PageInit /\ SampleInit /\ ConcInit /\ EngineInit
  /\ focus = "pacing"
  /\ file_exists = TRUE
  /\ \E n \in {0, MaxPaced \div 5, MaxPaced} : file = PacedFile(n) /\ appends = n
  /\ deviceConnected = TRUE
  /\ subscribed = TRUE
  /\ spc = "idle"
  /\ count = 0
  /\ fp = << >>
  /\ fp_pos = 0
  /\ rec_index = 0
  /\ packets_sent = 0
  /\ delay_ms = 0
  /\ gResetRingRequested = FALSE
  /\ wall_clock = 0
  /\ command = << >>
  /\ sent = << >>
  /\ tried = << >>
  /\ n_start = 0
  /\ n_complete = 0
  /\ store_at_cmd = fs_store_begin
  /\ peer_at_cmd = [connected |-> FALSE, subscribed |-> FALSE]
  /\ before_cmd = [aborted |-> FALSE, data |-> 0]
  /\ disc_at = 0 - 1
  /\ disturbed = FALSE
  /\ cmds = 0
  /\ store_obs = StoreObsInit

NextPacing ==
  \/ cmds < 1 /\ onWrite /\ RestUnchanged
  \/ stream_records /\ RestUnchanged
  \/ stream_next /\ RestUnchanged
  \/ stream_error /\ RestUnchanged
  \/ Unsubscribe /\ RestUnchanged
  \/ onDisconnect /\ RestUnchanged

SpecPacing == InitPacing /\ [][NextPacing]_vars

(***************************************************************************)
(* Concurrency property (SpecConc).                                        *)
(***************************************************************************)
\* C5: under every interleaving of the two contexts the calls behave as if
\* run one at a time: at most one context is between ENTER and EXIT, every
\* finished call returned what it returns in the one-at-a-time order, and
\* whenever nobody holds the lock the ring (slots, indices, count) equals
\* the ring of that order, with the count within 0..REG_BUFFER_SLOTS.
Atomic_C5 ==
  /\ \A c, d \in Contexts :
       (c # d /\ pc[c] \notin {"idle", "lock"}) => pc[d] \in {"idle", "lock"}
  /\ \A c \in Contexts :
       (pc[c] = "idle" /\ loc[c].fn # "none" /\ loc[c].data # NULL) =>
          (loc[c].ret = loc[c].seq_ret /\ loc[c].out = loc[c].seq_out)
  /\ g_mux = "free" => (PageRing = seq_ring /\ g_count \in 0..REG_BUFFER_SLOTS)

\* the consumer got a page from pop_256 while the producer was waiting to
\* enter push_256 on a ring that had been full
Witness_C5 ==
  /\ pc["consumer"] = "idle"
  /\ loc["consumer"].fn = "pop_256"
  /\ loc["consumer"].ret = TRUE
  /\ pc["producer"] = "lock"
  /\ loc["producer"].fn = "push_256"
  /\ g_count = REG_BUFFER_SLOTS - 1
  /\ g_tail # 0

(***************************************************************************)
(* Consolidation properties (SpecEngine).                                  *)
(***************************************************************************)
\* a step of SpecEngine that is a call of consolidate_from_ring
IsConsolidateStep ==
  /\ last_c'.op = "consolidate_from_ring"
  /\ last_s' = last_s
  /\ produced' = produced

\* C6: consolidate_from_ring on a ring holding fewer than kSamplesPerWindow
\* samples returns false, pops nothing, emits no record and leaves ctx
\* (running_avg, samples_since_step, streak, valid_walking) unchanged.
ShortRing_C6 ==
  [][ (IsConsolidateStep /\ SampleRingBuffer_size(gRing) < kSamplesPerWindow) =>
        /\ last_c'.ret = FALSE
        /\ gRing' = gRing
        /\ popped_s' = popped_s
        /\ emitted' = emitted
        /\ ctx' = ctx ]_vars

\* a call failed on a partial window after an earlier window had moved ctx
Witness_C6 ==
  /\ last_c.op = "consolidate_from_ring"
  /\ last_c.ret = FALSE
  /\ gRing.count_ > 0
  /\ gRing.count_ < kSamplesPerWindow
  /\ Len(emitted) >= 1
  /\ ctx # StepContext

\* C7: a successful consolidate_from_ring removes exactly kSamplesPerWindow
\* samples, the oldest ones in FIFO order, and emits exactly one record; it
\* succeeds exactly when a full window is present; and at all times the
\* number of samples popped is kSamplesPerWindow times the number of records.
Window_C7 ==
  [][ /\ IsConsolidateStep =>
           (last_c'.ret = TRUE <=> SampleRingBuffer_size(gRing) >= kSamplesPerWindow)
      /\ (IsConsolidateStep /\ last_c'.ret = TRUE) =>
           /\ SampleContents(gRing') =
                SubSeq(SampleContents(gRing), kSamplesPerWindow + 1, SampleRingBuffer_size(gRing))
           /\ popped_s' = popped_s \o SubSeq(SampleContents(gRing), 1, kSamplesPerWindow)
           /\ window' = SubSeq(SampleContents(gRing), 1, kSamplesPerWindow)
           /\ emitted' = Append(emitted, last_c'.record)
      /\ Len(popped_s') = kSamplesPerWindow * Len(emitted') ]_vars

\* two windows consolidated in a row, with a sample of a third left behind
\* in between
Witness_C7 ==
  /\ last_c.op = "consolidate_from_ring"
  /\ last_c.ret = TRUE
  /\ Len(emitted) = 2
  /\ Len(popped_s) = 2 * kSamplesPerWindow
  /\ gRing.head_ # 0
  /\ emitted[1].timestamp < emitted[2].timestamp

----------------------------------------------------------------------------

(***************************************************************************)
(* Ring buffer properties (SpecRing).                                      *)
(***************************************************************************)
IsPrefix(p, q) == Len(p) <= Len(q) /\ p = SubSeq(q, 1, Len(p))

\* C1: as long as no push found the ring full, the pages popped so far are
\* the first pages pushed, in push order, and the ring holds exactly the
\* pushed pages not yet popped (nothing lost, duplicated or reordered); the
\* same for the samples of gRing.
FIFO_C1 ==
  /\ overwrites_256 = 0 =>
       /\ IsPrefix(popped_256, pushed_256)
       /\ PageContents(PageRing) = SubSeq(pushed_256, Len(popped_256) + 1, Len(pushed_256))
  /\ IsPrefix(popped_s, pushed_s)
  /\ SampleContents(gRing) = SubSeq(pushed_s, Len(popped_s) + 1, Len(pushed_s))

\* more pages pushed than the ring has slots, none overwritten, and pops
\* that returned different pages after the indices wrapped
Witness_C1 ==
  /\ focus = "page_ring"
  /\ overwrites_256 = 0
  /\ Len(pushed_256) > REG_BUFFER_SLOTS
  /\ Len(popped_256) >= 3
  /\ popped_256[2] # popped_256[3]
  /\ g_tail < g_head

\* C2: SampleRingBuffer::push on a full buffer returns false and leaves
\* count_, head_, tail_ and every slot of buffer_ unchanged; no push ever
\* removes or replaces a sample already held.
PushFull_C2 ==
  [][ (focus = "sample_ring" /\ last_s'.op = "push" /\ produced' # produced) =>
        /\ gRing.count_ = kCapacity => (last_s'.ret = FALSE /\ gRing' = gRing)
        /\ IsPrefix(SampleContents(gRing), SampleContents(gRing')) ]_vars

Witness_C2 ==
  /\ focus = "sample_ring"
  /\ last_s.op = "push"
  /\ last_s.ret = FALSE
  /\ gRing.count_ = kCapacity
  /\ gRing.head_ # 0

\* C3: pop_256 and SampleRingBuffer::pop on an empty ring, and peek with an
\* index >= size(), return failure and leave the ring as it was; peek leaves
\* the ring as it was for every index.
EmptyPop_C3 ==
  [][ /\ (focus = "page_ring" /\ last_256'.op = "pop_256" /\ g_count = 0) =>
           (last_256'.ret = FALSE /\ PageRing' = PageRing)
      /\ (focus = "sample_ring" /\ last_s'.op = "pop" /\ gRing.count_ = 0) =>
           (last_s'.ret = FALSE /\ gRing' = gRing)
      /\ (focus = "sample_ring" /\ last_s'.op = "peek") =>
           /\ gRing' = gRing
           /\ last_s'.index >= gRing.count_ => last_s'.ret = FALSE
           /\ last_s'.index < gRing.count_ =>
                (last_s'.ret = TRUE /\ last_s'.out = SampleContents(gRing)[last_s'.index + 1]) ]_vars

\* a pop into a valid buffer failed on a ring that was used and drained
Witness_C3 ==
  /\ focus = "page_ring"
  /\ last_256.op = "pop_256"
  /\ last_256.ret = FALSE
  /\ last_256.out = "buf"
  /\ g_count = 0
  /\ Len(popped_256) > 0

\* C4: 0 <= count <= capacity and write index = (read index + count) mod
\* capacity, for both rings, after any calls; begin/clear leaves count 0.
CountIndex_C4 ==
  /\ g_count \in 0..REG_BUFFER_SLOTS
  /\ g_head = (g_tail + g_count) % REG_BUFFER_SLOTS
  /\ last_256.op = "begin" => g_count = 0
  /\ gRing.count_ \in 0..kCapacity
  /\ gRing.tail_ = (gRing.head_ + gRing.count_) % kCapacity
  /\ last_s.op = "clear" => gRing.count_ = 0

\* a full page ring whose oldest page was overwritten at least once
Witness_C4 ==
  /\ focus = "page_ring"
  /\ overwrites_256 > 0
  /\ g_count = REG_BUFFER_SLOTS
  /\ g_tail # 0

(***************************************************************************)
(* Export properties (Spec).                                               *)
(***************************************************************************)
\* what the peer does with the characters of a Data frame: base64 reversed
B64Val(c) ==
  IF c >= 65 /\ c <= 90 THEN c - 65
  ELSE IF c >= 97 /\ c <= 122 THEN c - 71
  ELSE IF c >= 48 /\ c <= 57 THEN c + 4
  ELSE IF c = 43 THEN 62
  ELSE IF c = 47 THEN 63 ELSE 0

B64Quad(q) ==
  LET pad == Cardinality({k \in 3..4 : q[k] = 61})
      v == [k \in 1..4 |-> B64Val(q[k])]
  IN SubSeq(<< v[1] * 4 + v[2] \div 16,
               (v[2] % 16) * 16 + v[3] \div 4,
               (v[3] % 4) * 64 + v[4] >>, 1, 3 - pad)

RECURSIVE B64Decode(_)
B64Decode(text) ==
  IF Len(text) < 4 THEN << >>
  ELSE B64Quad(SubSeq(text, 1, 4)) \o B64Decode(SubSeq(text, 5, Len(text)))

\* the i-th record of a store, by file offset
StoredRecord(st, i) == SubSeq(st.bytes, RecordSize * (i - 1) + 1, RecordSize * i)

IsData(frame) == frame # << >> /\ frame[1] = kDataMarker

\* the command in hand is a SEND whose handler has returned
SendDone == command = kCmdSend /\ spc = "idle"

\* the peer was connected and subscribed when the command arrived and has
\* neither disconnected nor unsubscribed since
PeerSteady == peer_at_cmd.connected /\ peer_at_cmd.subscribed /\ ~disturbed

\* C8: a SEND received while connected and subscribed (the peer staying so),
\* on a store of N > 0 records, hands over Start(N), then exactly N Data
\* frames in store order, then End, and the i-th Data frame, marker stripped
\* and base64 reversed, is the 10 bytes of the i-th stored record.
SendDelivers_C8 ==
  LET n == fs_store_record_count(store_at_cmd)
  IN (SendDone /\ PeerSteady /\ n > 0) =>
       /\ Len(sent) = n + 2
       /\ sent[1] = StartMsg(n)
       /\ sent[n + 2] = <<kEndMarker>>
       /\ \A i \in 1..n :
            /\ IsData(sent[i + 1])
            /\ B64Decode(Tail(sent[i + 1])) = StoredRecord(store_at_cmd, i)

\* C9 as amended: a SEND received while connected, on an empty store, hands
\* over no Data frame and, once handled, has invoked the transfer-complete
\* hook exactly once; if the peer was subscribed and stays connected and
\* subscribed, the frames handed over are Start(0) followed at once by End.
EmptySend_C9 ==
  (command = kCmdSend /\ peer_at_cmd.connected /\ fs_store_record_count(store_at_cmd) = 0) =>
    /\ \A i \in 1..Len(sent) : ~IsData(sent[i])
    /\ n_start = 1
    /\ n_complete = (IF spc = "idle" THEN 1 ELSE 0)
    /\ (spc = "idle" /\ PeerSteady) => sent = <<StartMsg(0), <<kEndMarker>>>>

\* an export of an empty store to a steady peer has finished
Witness_C9 ==
  /\ SendDone
  /\ PeerSteady
  /\ fs_store_record_count(store_at_cmd) = 0
  /\ sent = <<StartMsg(0), <<kEndMarker>>>>
  /\ n_complete = 1

\* C9 as stated: every SEND on an empty store hands over Start(0) then End
\* and invokes the transfer-complete hook.
EmptySendAlways_C9 ==
  (SendDone /\ fs_store_record_count(store_at_cmd) = 0) =>
    /\ sent = <<StartMsg(0), <<kEndMarker>>>>
    /\ n_complete = 1

\* C10: once the peer has disconnected during a SEND, no Data frame of that
\* SEND is handed over after the disconnect, and when the handler has
\* returned the transfer-complete hook has been invoked exactly once.
DisconnectStops_C10 ==
  (command = kCmdSend /\ disc_at >= 0) =>
    /\ \A i \in (disc_at + 1)..Len(sent) : ~IsData(sent[i])
    /\ n_complete = (IF spc = "idle" THEN 1 ELSE 0)

\* the k-th call of notify for the command in hand carried a Data frame and
\* was refused
FailedData(k) == k \in 1..Len(tried) /\ IsData(tried[k].data) /\ ~tried[k].ok

StreamErrAck == <<kAckMarker>> \o LabelStreamErr

IsStoreCall(op) == store_obs'.calls = store_obs.calls + 1 /\ store_obs'.op = op

\* C12: while every append made since the store was last empty has returned
\* true, record_count() is the number of those appends; after an erase() that
\* returned true it is 0; and for_each_record with a visitor that never stops
\* makes exactly record_count() visits, with indices 0..N-1, of the appended
\* records in append order and with the bytes appended.
CountAndVisit_C12 ==
  /\ ~store_obs.failed => fs_store_record_count(Store) = Len(store_obs.appended)
  /\ (store_obs.op = "record_count" /\ ~store_obs.failed) =>
       store_obs.ret = Len(store_obs.appended)
  /\ (store_obs.op = "erase" /\ store_obs.ret = 1) => fs_store_record_count(Store) = 0
  /\ (store_obs.op = "for_each_record" /\ store_obs.stop_at < 0) =>
       /\ Len(store_obs.visits) = fs_store_record_count(Store)
       /\ \A i \in 1..Len(store_obs.visits) : store_obs.visits[i].index = i - 1
       /\ ~store_obs.failed =>
            \A i \in 1..Len(store_obs.visits) :
              /\ store_obs.visits[i].record = store_obs.appended[i]
              /\ RecordBytes(store_obs.visits[i].record) = StoredRecord(Store, i)

\* three records were appended and then visited
Witness_C12 ==
  /\ store_obs.op = "for_each_record"
  /\ store_obs.stop_at < 0
  /\ ~store_obs.failed
  /\ Len(store_obs.appended) = 3
  /\ Len(store_obs.visits) = 3

\* C13: in every reachable state of the store the byte length of the file is
\* a multiple of the record width, so record_count * 10 is the byte length.
RecordAligned_C13 ==
  /\ fs_store_size(Store) % RecordSize = 0
  /\ fs_store_record_count(Store) * RecordSize = fs_store_size(Store)

\* C14: erase() on an empty or missing store returns success and leaves the
\* store empty; an erase() right after a successful erase() changes nothing;
\* an append to the erased store that is written in full returns success and
\* makes record_count() 1 (LittleFS.remove, open and write not failing).
EraseIdempotent_C14 ==
  [][ /\ (IsStoreCall("erase") /\ fs_store_size(Store) = 0 /\ store_obs'.io = "removed") =>
           (store_obs'.ret = 1 /\ fs_store_size(Store') = 0)
      /\ (IsStoreCall("erase") /\ ~file_exists) => (store_obs'.ret = 1 /\ Store' = Store)
      /\ (IsStoreCall("erase") /\ store_obs.op = "erase" /\ store_obs.ret = 1) =>
           (store_obs'.ret = 1 /\ Store' = Store)
      /\ (IsStoreCall("append") /\ fs_store_size(Store) = 0 /\ store_obs'.io = "written") =>
           (store_obs'.ret = 1 /\ fs_store_record_count(Store') = 1) ]_vars

\* a store that held a record was erased twice running
Witness_C14 ==
  /\ store_obs.op = "erase"
  /\ store_obs.prev = "erase"
  /\ store_obs.ret = 1
  /\ appends > 0
  /\ ~file_exists

(***************************************************************************)
(* Properties of consolidate() (SpecWindow).                               *)
(***************************************************************************)
\* the last step was a call of consolidate() that produced a record
Consolidated == last_c.op = "consolidate" /\ last_c.ret

\* every sample of the window has the heart rate and temperature of the first
ConstantVitals(w) ==
  /\ w # << >>
  /\ \A i \in 1..Len(w) : w[i].hr_bpm = w[1].hr_bpm /\ w[i].temp_c = w[1].temp_c

\* C15 as amended: for a window of constant heart rate H and temperature T,
\* whatever its length and the engine's prior state, avg_hr_x10 is H*10 and
\* avg_temp_x100 is T*100, each truncated toward zero and clamped to its
\* field's range; they are H*10 and T*100 exactly when these are whole
\* numbers within range.
ConstantAverage_C15 ==
  (Consolidated /\ ConstantVitals(last_c.samples)) =>
    LET h10 == last_c.samples[1].hr_bpm * 10
        t100 == last_c.samples[1].temp_c * 100
        rec == last_c.record
    IN /\ rec.avg_hr_x10 =
            (IF h10 <= 0 THEN 0 ELSE IF h10 >= 65535 * Frac THEN 65535 ELSE h10 \div Frac)
       /\ rec.avg_temp_x100 =
            (IF t100 <= (0 - 32768) * Frac THEN 0 - 32768
             ELSE IF t100 >= 32767 * Frac THEN 32767
             ELSE IF t100 >= 0 THEN t100 \div Frac ELSE 0 - ((0 - t100) \div Frac))
       /\ (h10 % Frac = 0 /\ h10 >= 0 /\ h10 <= 65535 * Frac) => rec.avg_hr_x10 * Frac = h10
       /\ (t100 % Frac = 0 /\ t100 >= (0 - 32768) * Frac /\ t100 <= 32767 * Frac) =>
            rec.avg_temp_x100 * Frac = t100

\* a window of 72.3125 BPM and 36.59375 degrees, at least three samples long,
\* consolidated by an engine that is no longer in its starting state
Witness_C15 ==
  /\ Consolidated
  /\ ConstantVitals(last_c.samples)
  /\ Len(last_c.samples) >= 3
  /\ last_c.samples[1].hr_bpm = 2314
  /\ last_c.before # StepContext
  /\ last_c.record.avg_hr_x10 = 723
  /\ last_c.record.avg_temp_x100 = 3659

\* C15 as stated: for a window of constant H and T the record has
\* avg_hr_x10 == H*10 and avg_temp_x100 == T*100 exactly.
ConstantAverageExact_C15 ==
  (Consolidated /\ ConstantVitals(last_c.samples)) =>
    /\ last_c.record.avg_hr_x10 * Frac = last_c.samples[1].hr_bpm * 10
    /\ last_c.record.avg_temp_x100 * Frac = last_c.samples[1].temp_c * 100

RECURSIVE SumField(_, _, _)
SumField(w, n, hr) ==
  IF n = 0 THEN 0
  ELSE SumField(w, n - 1, hr) + (IF hr THEN w[n].hr_bpm ELSE w[n].temp_c)

\* C16: for every window the averaged fields saturate: each lies within its
\* field's range, is the upper bound when the scaled mean is at or above it
\* and the lower bound when the scaled mean is at or below it, and otherwise
\* is within one unit of the scaled mean; it is never a wrapped value.
Saturate_C16 ==
  Consolidated =>
    LET n == Len(last_c.samples)
        h10 == SumField(last_c.samples, n, TRUE) * 10
        t100 == SumField(last_c.samples, n, FALSE) * 100
        rec == last_c.record
    IN /\ rec.avg_hr_x10 \in 0..65535
       /\ rec.avg_temp_x100 \in (0 - 32768)..32767
       /\ h10 >= 65535 * n * Frac => rec.avg_hr_x10 = 65535
       /\ h10 <= 0 => rec.avg_hr_x10 = 0
       /\ (h10 > 0 /\ h10 < 65535 * n * Frac) =>
            Abs(rec.avg_hr_x10 * n * Frac - h10) < n * Frac
       /\ t100 >= 32767 * n * Frac => rec.avg_temp_x100 = 32767
       /\ t100 <= (0 - 32768) * n * Frac => rec.avg_temp_x100 = 0 - 32768
       /\ (t100 > (0 - 32768) * n * Frac /\ t100 < 32767 * n * Frac) =>
            Abs(rec.avg_temp_x100 * n * Frac - t100) < n * Frac

\* a window whose means are above both ranges gave the two upper bounds
Witness_C16 ==
  /\ Consolidated
  /\ last_c.samples[1].hr_bpm = 7000 * Frac
  /\ last_c.samples[1].temp_c = 400 * Frac
  /\ last_c.record.avg_hr_x10 = 65535
  /\ last_c.record.avg_temp_x100 = 32767

\* every sample of the window has the acceleration magnitude of the first
FlatMagnitude(w) ==
  w # << >> /\ \A i \in 1..Len(w) : Magnitude(w[i]) = Magnitude(w[1])

\* C17: a window whose samples all have the same acceleration magnitude
\* yields step_count == 0, whatever filter memory, streak, walking flag and
\* debounce counter the engine had before the call.
FlatNoSteps_C17 ==
  (Consolidated /\ FlatMagnitude(last_c.samples)) => last_c.record.step_count = 0

\* a flat window at 2 g consolidated by an engine that was walking, with its
\* filter memory still away from the window's magnitude
Witness_C17 ==
  /\ Consolidated
  /\ FlatMagnitude(last_c.samples)
  /\ Len(last_c.samples) >= 3
  /\ Magnitude(last_c.samples[1]) = 2 * Milli
  /\ last_c.before.valid_walking
  /\ last_c.before.streak >= StreakConfirm
  /\ last_c.before.running_avg # 2 * Milli
  /\ last_c.record.step_count = 0

\* C18: counting from streak 0 and as long as the timeout branch is not
\* taken, the sum of the reported step_count values is 0 while fewer than 3
\* steps were accepted and equals the number of accepted steps from the third
\* on (3 at the moment the third is accepted).
Backfill_C18 ==
  /\ Consolidated =>
       last_c.reported = (IF last_c.accepted < StreakConfirm THEN 0 ELSE last_c.accepted)
  /\ (Consolidated /\ last_c.accepted = StreakConfirm /\ last_c.before.streak = StreakConfirm - 1) =>
       last_c.record.step_count = 3

\* a fourth step accepted after the confirmation: four reported so far
Witness_C18 ==
  /\ Consolidated
  /\ last_c.accepted = StreakConfirm + 1
  /\ last_c.reported = 4
  /\ last_c.record.step_count = 1
  /\ last_c.before.valid_walking

\* the confirming step: nothing reported before it, three with it
WitnessThird_C18 ==
  /\ Consolidated
  /\ last_c.accepted = StreakConfirm
  /\ last_c.before.streak = StreakConfirm - 1
  /\ ~last_c.before.valid_walking
  /\ last_c.record.step_count = 3

(***************************************************************************)
(* Properties of the command handler (Spec).                               *)
(***************************************************************************)
\* the step is the handling of one write to the control characteristic
IsWrite == cmds' = cmds + 1

\* the one send the handler attempted was the ack with this label
Acked(label) ==
  Len(tried') = 1 /\ tried'[1].data = <<kAckMarker>> \o label

\* the payload is a decimal integer: an optional minus sign and digits only
IsDecimal(p) ==
  LET digits == IF p # << >> /\ Head(p) = 45 THEN Tail(p) ELSE p
  IN digits # << >> /\ \A i \in 1..Len(digits) : IsDigit(digits[i])

\* what a later command's reply is computed from
ReplyState == <<file_exists, file, deviceConnected, subscribed, spc, gResetRingRequested, ctx>>

\* C19: a write TIME:<payload> is answered with the TIME ack and handed to
\* the time-sync hook exactly when the payload is a positive decimal integer;
\* every other payload is answered with TIMEERR and the hook is not invoked;
\* the write changes nothing that the reply to a later command depends on.
TimeSync_C19 ==
  [][(IsWrite /\ HasTimePrefix(command')) =>
       LET payload == SubSeq(command', Len(kTimePrefix) + 1, Len(command'))
       IN /\ IF IsDecimal(payload) /\ DigitsValue(payload, 0) > 0
             THEN Acked(LabelTime) /\ wall_clock' = DigitsValue(payload, 0)
             ELSE Acked(LabelTimeErr) /\ wall_clock' = wall_clock
          /\ ReplyState' = ReplyState]_vars

\* the write is none of LIST, SEND, ERASE and does not start with TIME:
IsUnknown(cmd) == cmd \notin {kCmdList, kCmdSend, kCmdErase} /\ ~HasTimePrefix(cmd)

UnknownAck == <<kAckMarker>> \o LabelUnknown

\* connection state, record store and consolidation state
DeviceState ==
  <<deviceConnected, subscribed, file_exists, file, gResetRingRequested, gRing, ctx, window>>

WitnessEmpty_C20 ==
  /\ cmds = 1
  /\ command = << >>
  /\ tried = << >>
  /\ deviceConnected /\ subscribed

EraseReply_C21 ==
  [][(IsWrite /\ command' = kCmdErase) =>
       /\ Len(tried') = 1
       /\ (tried'[1].data = <<kAckMarker>> \o LabelErased) <=> ~file_exists']_vars

(***************************************************************************)
(* Properties of the path from the ring to the store and back (SpecLoop).  *)
(***************************************************************************)
AppendReturnedTrue(s) == s.ok

\* the records a reader that never stops was handed by for_each_record
ReadBack == [k \in 1..Len(store_obs.visits) |-> store_obs.visits[k].record]

\* C22: every sample of the window of a consolidated record was pushed
\* before every sample of the window of the next one, and a read of the whole
\* store hands out the stored records in the order of their consolidation.
WindowsInOrder ==
  \A i \in 1..(Len(stored) - 1) :
    \A a \in 1..Len(stored[i].window), b \in 1..Len(stored[i + 1].window) :
      stored[i].window[a].timestamp < stored[i + 1].window[b].timestamp

\* the records in the store: those whose append returned true, oldest first
StoredRecords ==
  [k \in 1..Len(SelectSeq(stored, AppendReturnedTrue)) |->
     SelectSeq(stored, AppendReturnedTrue)[k].record]

IsFullRead ==
  /\ store_obs'.calls = store_obs.calls + 1
  /\ store_obs'.op = "for_each_record"
  /\ store_obs'.stop_at < 0

TimeOrder_C22 ==
  [][WindowsInOrder' /\ (IsFullRead => ReadBack' = StoredRecords)]_vars

(***************************************************************************)
(* Properties of the export (Spec).                                        *)
(***************************************************************************)
\* C23: between the Start frame and the End or error ack of an export no
\* append and no erase changes the store, and the count announced in Start
\* is the number of records in the store.
SingleAccess_C23 ==
  [][spc # "idle" =>
       /\ count = fs_store_record_count(Store)
       /\ file' = file
       /\ file_exists' = file_exists]_vars

NoConnAck == <<kAckMarker>> \o LabelNoConn

\* C24 as amended: every export ends: a SEND handled while connected makes
\* at most two sends more than the store has records, the last of them the
\* End frame or the STREAMERR ack, invokes transfer-complete once and leaves
\* the protocol idle, whatever the peer does meanwhile; a SEND handled while
\* not connected returns at once after the NOCONN ack, without either hook.
SendEnds_C24 ==
  /\ [](command = kCmdSend => Len(tried) <= fs_store_record_count(Store) + 2)
  /\ []((SendDone /\ peer_at_cmd.connected) =>
          /\ n_start = 1
          /\ n_complete = 1
          /\ tried # << >>
          /\ tried[Len(tried)].data \in {<<kEndMarker>>, StreamErrAck})
  /\ []((SendDone /\ ~peer_at_cmd.connected) =>
          /\ n_start = 0
          /\ n_complete = 0
          /\ Len(tried) = 1
          /\ tried[1].data = NoConnAck)
  /\ (spc # "idle") ~> (spc = "idle")

\* an export of two records whose peer went away in the middle has ended
\* with the STREAMERR ack and the hook
Witness_C24 ==
  /\ SendDone
  /\ peer_at_cmd.connected
  /\ disturbed
  /\ n_complete = 1
  /\ Len(tried) >= 3
  /\ tried[Len(tried)].data = StreamErrAck

\* C24 as stated: every SEND, once handled, has reached End or the error ack
\* and has invoked transfer-complete.
SendAlwaysCompletes_C24 ==
  SendDone =>
    /\ n_complete = 1
    /\ tried # << >>
    /\ tried[Len(tried)].data \in {<<kEndMarker>>, StreamErrAck, NoConnAck}

(***************************************************************************)
(* consolidate on a register buffer (SpecRegister).                        *)
(***************************************************************************)
Bit(v, k) == (v \div (2 ^ k)) % 2

Debounce_C27 ==
  (last_c.op = "consolidate" /\ last_c.ret) =>
    \A gap \in last_c.gaps : gap >= kMinSamplesBetweenSteps

\* a window with a swing at its second sample and one at its last but one,
\* after a window whose step was at the last but one: the first swing, three
\* samples after that step, was not accepted, the second, nine after, was
Witness_C27 ==
  /\ focus = "debounce"
  /\ last_c.op = "consolidate"
  /\ last_c.ret
  /\ last_c.before.samples_since_step = 0
  /\ last_c.samples[2].az = 3000
  /\ last_c.samples[StepWindow - 1].az = 3000
  /\ last_c.gaps = {StepWindow}
\* C28: whenever no candidate step has occurred for more than SilenceSamples
\* samples, the streak is back at zero and walking is unconfirmed: if every
\* step a call accepts comes more than SilenceSamples samples after the
\* candidate before it, the call leaves a streak of one, walking
\* unconfirmed, and reports no step.
StreakTimeout_C28 ==
  (/\ last_c.op = "consolidate"
   /\ last_c.ret
   /\ last_c.quiet # {}
   /\ \A q \in last_c.quiet : q > SilenceSamples) =>
    /\ ctx.streak = 1
    /\ ~ctx.valid_walking
    /\ last_c.record.step_count = 0

(***************************************************************************)
(* ERASE and the consolidation engine (SpecLoop).                          *)
(***************************************************************************)
\* C29: after an ERASE has been handled, the first window that is
\* consolidated finds the engine's adaptive state (running_avg,
\* samples_since_step, streak, walking flag) at its initial values.
EraseResetsEngine_C29 ==
  [][(command = kCmdErase /\ command' = << >> /\ last_c'.ret) =>
       last_c'.before = StepContext]_vars

(***************************************************************************)
(* No resume of an export (Spec).                                          *)
(***************************************************************************)
\* C30 as amended: there is no mid-transfer resume: every SEND handled while
\* connected, also one that follows an aborted export, first tries a Start
\* frame with the record count the store has at that moment, and its k-th
\* Data frame carries the k-th record of the store, from the first on; a
\* SEND handled while not connected tries the NOCONN ack only.
NoResume_C30 ==
  /\ (command = kCmdSend /\ peer_at_cmd.connected) =>
        /\ tried # << >>
        /\ tried[1].data = StartMsg(fs_store_record_count(store_at_cmd))
        /\ \A i \in 2..Len(tried) :
             IsData(tried[i].data) =>
               tried[i].data = <<kDataMarker>>
                                 \o B64Encode(SubSeq(file, RecordSize * (i - 2) + 1, RecordSize * (i - 1)))
  /\ (command = kCmdSend /\ ~peer_at_cmd.connected) =>
        /\ Len(tried) = 1
        /\ tried[1].data = NoConnAck

\* a SEND that follows an export aborted after its first Data frame has
\* announced the whole store and tried the first record again
Witness_C30 ==
  /\ SendDone
  /\ peer_at_cmd.connected
  /\ before_cmd.aborted
  /\ before_cmd.data >= 1
  /\ fs_store_record_count(store_at_cmd) >= 2
  /\ tried[1].data = StartMsg(fs_store_record_count(store_at_cmd))
  /\ Len(tried) >= 3
  /\ tried[2].data = <<kDataMarker>> \o B64Encode(SubSeq(file, 1, RecordSize))

\* C30 as stated: every SEND announces the full current record count.
EverySendAnnounces_C30 ==
  command = kCmdSend =>
    /\ tried # << >>
    /\ tried[1].data = StartMsg(fs_store_record_count(store_at_cmd))

(***************************************************************************)
(* Iteration over the store (SpecStore).                                   *)
(***************************************************************************)
\* the visits expected of a file of the given length when the visitor returns
\* false at index stop_at (never, if stop_at is negative)
ExpectedVisits(length, stop_at) ==
  IF stop_at >= 0 /\ stop_at < length \div RecordSize THEN stop_at + 1
  ELSE length \div RecordSize

\* C31: for_each_record stops at the first visitor call that returns false and
\* visits no later record; on a file that ends with a partial record it visits
\* every complete record before it, in order, each with its own ten bytes,
\* never hands the partial bytes to the visitor, and returns normally.
StopsAndTolerates_C31 ==
  store_obs.op = "for_each_record" =>
    /\ store_obs.ret = 1
    /\ Len(store_obs.visits) = ExpectedVisits(fs_store_size(Store), store_obs.stop_at)
    /\ \A i \in 1..Len(store_obs.visits) :
         /\ store_obs.visits[i].index = i - 1
         /\ RecordSize * i <= fs_store_size(Store)
         /\ RecordBytes(store_obs.visits[i].record) = StoredRecord(Store, i)
         /\ store_obs.stop_at >= 0 => store_obs.visits[i].index <= store_obs.stop_at

\* a file of two complete records and a partial third was read by a visitor
\* that returned false at the first record
Witness_C31 ==
  /\ store_obs.op = "for_each_record"
  /\ store_obs.stop_at = 0
  /\ fs_store_size(Store) = 2 * RecordSize + ShortWrite
  /\ Len(store_obs.visits) = 1

\* the same file was read to its end: two visits, none of the partial bytes
WitnessPartial_C31 ==
  /\ store_obs.op = "for_each_record"
  /\ store_obs.stop_at < 0
  /\ fs_store_size(Store) = 2 * RecordSize + ShortWrite
  /\ Len(store_obs.visits) = 2

(***************************************************************************)
(* Pacing of an export (SpecPacing).                                       *)
(***************************************************************************)
\* the Data frames handed to the characteristic for the command in hand
DataSent == Cardinality({i \in 1..Len(sent) : IsData(sent[i])})

\* the step hands a frame to the characteristic
SendsFrame == Len(sent') = Len(sent) + 1

kAttPayload == 20

\* the ordinal of attempt i among the Data frames attempted
DataOrdinal(i) == Cardinality({j \in 1..i : IsData(tried[j].data)})

\* C33: every Data frame is the marker byte followed by the base64 text of
\* the record's ten bytes; it is 17 bytes long for every record, which fits
\* the 20-byte packet buffer and the notification payload, and the text with
\* its terminating NUL fits the 24-byte encode buffer.
DataFrameSize_C33 ==
  \A i \in 1..Len(tried) :
    IsData(tried[i].data) =>
      /\ Len(tried[i].data) = 17
      /\ Len(tried[i].data) = 1 + 4 * ((RecordSize + 2) \div 3)
      /\ Len(tried[i].data) <= kPacketSize
      /\ Len(tried[i].data) <= kAttPayload
      /\ (Len(tried[i].data) - 1) + 1 <= kEncodedSize
      /\ tried[i].data[1] = kDataMarker
      /\ B64Decode(SubSeq(tried[i].data, 2, Len(tried[i].data)))
           = StoredRecord(store_at_cmd, DataOrdinal(i))

\* an export has sent the first record (heart rate field 65535, temperature
\* field -32768, no steps) and the last one in frames of 17 bytes
Witness_C33 ==
  /\ command = kCmdSend
  /\ DataSent = MaxPaced
  /\ Len(sent[2]) = 17
  /\ B64Decode(SubSeq(sent[2], 2, 17)) = RecordBytes(PacedRecord(0))
  /\ Len(sent[MaxPaced + 1]) = 17
  /\ B64Decode(SubSeq(sent[MaxPaced + 1], 2, 17)) = RecordBytes(PacedRecord(MaxPaced - 1))

(***************************************************************************)
(* Overwrite policy of the page ring (SpecRing).                           *)
(***************************************************************************)
\* the last n elements of a sequence
LastOf(q, n) == SubSeq(q, Len(q) - n + 1, Len(q))

\* C34: push_256 with non-null data always returns true; on a full ring it
\* keeps count at REG_BUFFER_SLOTS, advances the read index by one and drops
\* exactly the oldest page; the ring always holds the most recent pushed
\* pages in push order, and what a pop returns is the oldest page held.
OverwriteOldest_C34 ==
  [][ focus = "page_ring" =>
        /\ (last_256'.op = "push_256" /\ last_256'.out # NULL) =>
             /\ last_256'.ret = TRUE
             /\ g_count < REG_BUFFER_SLOTS =>
                  /\ g_count' = g_count + 1
                  /\ g_tail' = g_tail
                  /\ PageContents(PageRing') = Append(PageContents(PageRing), last_256'.out)
             /\ g_count = REG_BUFFER_SLOTS =>
                  /\ g_count' = REG_BUFFER_SLOTS
                  /\ g_tail' = (g_tail + 1) % REG_BUFFER_SLOTS
                  /\ PageContents(PageRing') = Append(Tail(PageContents(PageRing)), last_256'.out)
        /\ PageContents(PageRing') = LastOf(pushed_256', g_count')
        /\ (last_256'.op = "pop_256" /\ last_256'.ret) =>
             last_256'.out = PageContents(PageRing)[1] ]_vars

\* five pages were pushed with no pop in between, two of them onto the full
\* ring, and the pops that followed returned the last three in push order
Witness_C34 ==
  /\ focus = "page_ring"
  /\ Len(pushed_256) = 5
  /\ overwrites_256 = 2
  /\ pushed_256[3] # pushed_256[4]
  /\ pushed_256[1] # pushed_256[3]
  /\ g_count = 0
  /\ popped_256 = LastOf(pushed_256, REG_BUFFER_SLOTS)

(***************************************************************************)
(* Order of the frames of an export (Spec).                                *)
(***************************************************************************)
IsStart(frame) == frame # << >> /\ frame[1] = kStartMarker

IsTerminator(frame) == frame = <<kEndMarker>> \/ frame = StreamErrAck

\* C35: for each SEND the frames delivered to the peer are Start, then Data
\* frames, then one terminator (End or the STREAMERR ack): whatever is
\* delivered begins with the Start frame of the export, so no Data or End
\* frame is delivered without it; nothing is delivered after the terminator;
\* and an export that ends with the peer connected and subscribed all along
\* has delivered exactly one terminator.
FrameOrder_C35 ==
  command = kCmdSend =>
    /\ sent # << >> => IsStart(sent[1])
    /\ \A i \in 2..Len(sent) :
         /\ IsData(sent[i]) \/ IsTerminator(sent[i])
         /\ IsTerminator(sent[i]) => i = Len(sent)
    /\ (SendDone /\ PeerSteady) => (Len(sent) >= 2 /\ IsTerminator(sent[Len(sent)]))

\* the frames delivered never go on after a terminator, and a terminator is
\* delivered at most once (the part of C35 that the export keeps)
TerminatorLast ==
  command = kCmdSend =>
    \A i \in 1..Len(sent) : IsTerminator(sent[i]) => i = Len(sent)

(***************************************************************************)
(* The transfer hooks (Spec).                                              *)
(***************************************************************************)
\* C36: the transfer hooks are balanced: transfer-complete is never invoked
\* without a transfer-start before it, a transfer-start is followed by exactly
\* one transfer-complete by the time its command has been handled, which is
\* before the next command is handled; only a SEND invokes them; and a SEND
\* received while disconnected invokes neither and attempts no Start, Data
\* or End frame.
HooksBalanced_C36 ==
  /\ [](/\ n_complete <= n_start
        /\ n_start <= 1
        /\ spc = "idle" => n_complete = n_start
        /\ spc # "idle" => (n_start = 1 /\ n_complete = 0)
        /\ command # kCmdSend => n_start = 0
        /\ (command = kCmdSend /\ peer_at_cmd.connected) => n_start = 1
        /\ (command = kCmdSend /\ ~peer_at_cmd.connected) =>
             /\ n_start = 0
             /\ n_complete = 0
             /\ spc = "idle"
             /\ \A i \in 1..Len(tried) :
                  /\ ~IsStart(tried[i].data)
                  /\ ~IsData(tried[i].data)
                  /\ tried[i].data # <<kEndMarker>>)
  /\ [][cmds' # cmds => (spc = "idle" /\ n_complete = n_start)]_vars

\* after an export that the peer cut short (hooks invoked once each), the
\* peer being gone, a second SEND was handled: the NOCONN ack only, no hook
Witness_C36 ==
  /\ cmds = 2
  /\ before_cmd.aborted
  /\ command = kCmdSend
  /\ ~peer_at_cmd.connected
  /\ n_start = 0
  /\ tried = <<[data |-> NoConnAck, ok |-> FALSE]>>

(***************************************************************************)
(* Erase and resynchronisation, and the fill of the sample ring (SpecMain). *)
(***************************************************************************)
\* the sample was pushed after the store was last erased
PushedAfterErase(s) == s.timestamp > erase_mark

\* C37: once the ERASE handler has erased the store and requested the ring
\* reset, the ring is cleared before any further consolidation: every record
\* appended to the store since the erase was computed from samples pushed
\* after it, and when the request is withdrawn the ring holds no sample
\* pushed before the erase.
EraseResync_C37 ==
  /\ [](erase_mark >= 0 =>
          \A k \in 1..Len(stored) :
            \A i \in 1..Len(stored[k].window) : PushedAfterErase(stored[k].window[i]))
  /\ [][(gResetRingRequested /\ ~gResetRingRequested') =>
          \A i \in 1..Len(SampleContents(gRing')) : PushedAfterErase(SampleContents(gRing')[i])]_vars

\* the half of C37 that holds: the request is withdrawn only with a ring that
\* holds nothing pushed before the erase
RequestServed ==
  [][(gResetRingRequested /\ ~gResetRingRequested') =>
       \A i \in 1..Len(SampleContents(gRing')) : PushedAfterErase(SampleContents(gRing')[i])]_vars

\* C38: in the main loop the sample ring never fills: each pass pushes at
\* most one sample and then drains a whole window as soon as
\* kSamplesPerWindow samples are present, so the ring never holds more than
\* kSamplesPerWindow samples, which is less than its capacity, and no push
\* fails for lack of space.
RingNeverFills_C38 ==
  focus = "main" =>
    /\ kSamplesPerWindow < kCapacity
    /\ SampleRingBuffer_size(gRing) <= kSamplesPerWindow
    /\ ~SampleRingBuffer_full(gRing)
    /\ loop_at = "sensors" => SampleRingBuffer_size(gRing) < kSamplesPerWindow
    /\ last_s.op = "push" => last_s.ret
    /\ Len(pushed_s) - Len(popped_s) = SampleRingBuffer_size(gRing)

\* the ring holds a whole window for the second time, about to be drained
Witness_C38 ==
  /\ focus = "main"
  /\ loop_at = "consolidate"
  /\ SampleRingBuffer_size(gRing) = kSamplesPerWindow
  /\ Len(emitted) >= 1
  /\ last_s.op = "push"
  /\ last_s.ret

(***************************************************************************)
(* C39: the handoff of IMU ticks from the timer callback to the consumer   *)
(***************************************************************************)
\* The ticks the consumer has taken off the counter and not yet packed.
InFlight ==
  IF focus = "worker" THEN ticks.taken ELSE ticks.taken - ticks.i

Conserved ==
  /\ ticks.imu_pack_ticks >= 0
  /\ ticks.imu_tick_count = ticks.packed + ticks.imu_pack_ticks + InFlight
  /\ ticks.i <= IMU_PACKS_PER_PASS_MAX

\* C39: under every interleaving of the timer callback and the consumer the
\* ticks produced equal the tick-driven packs performed plus the ticks still
\* pending (counting the ones taken and not yet packed); the pending counter
\* never goes below zero and one pass packs at most 10 ticks.
TickHandoff_C39 ==
  focus \in {"worker", "loop_ticks"} => Conserved

\* The same statement for worker_fn of demo_interrupts.cpp alone.
WorkerHandoff ==
  focus = "worker" => Conserved

(***************************************************************************)
(* C40: float16 bits read as a float and stored again                      *)
(***************************************************************************)
\* binary16: all exponent bits set and a mantissa that is not zero
IsNaN(h) == Shr(h, 10) % 32 = 31 /\ h % 1024 # 0

\* C40: for every 16 bits h that are not a NaN (zero, subnormal, normal and
\* infinity alike) float_to_half(half_to_float(h)) = h.
HalfRoundTrip_C40 ==
  (half.at = "stored" /\ ~IsNaN(half.bits)) => half.back = half.bits

\* The same for every h that is not a NaN and not a subnormal.
NormalRoundTrip ==
  (half.at = "stored" /\ ~IsNaN(half.bits) /\ ~(Shr(half.bits, 10) % 32 = 0 /\ half.bits % 1024 # 0))
    => half.back = half.bits

\* A subnormal h comes back with its magnitude bits doubled: the shift of
\* line 45 is one short.
SubnormalDoubled ==
  (half.at = "stored" /\ Shr(half.bits, 10) % 32 = 0)
    => half.back = Shl(Shr(half.bits, 15), 15) + 2 * (half.bits % 32768)

====
